---------------------------- MODULE Spec2Model ----------------------------
(***************************************************************************)
(* StoryQuest backend: the turn engine (StoryEngine), its streaming        *)
(* endpoints, and the enhanced safety filter, as a state machine.          *)
(*                                                                         *)
(* Text is kept in the state as a string; every operation of the code that *)
(* looks inside a string (lower, split, startswith, "in", re.sub) is       *)
(* computed on the string's character sequence, Chars(t).                  *)
(***************************************************************************)
EXTENDS Integers, Sequences, FiniteSets, TLC

(***************************************************************************)
(* Bounds of the model.                                                    *)
(***************************************************************************)
\* stands for config.safety.max_turns_per_session (50 by default)
MaxTurns == 2

(***************************************************************************)
(* Program constants.                                                      *)
(***************************************************************************)
max_retries == 3
max_input_length == 200
\* -0.3, in tenths
SentimentThreshold == -3
\* StoryMetadata.max_turns when the caller does not set it
MetadataDefaultMaxTurns == 15

(***************************************************************************)
(* Python values.                                                          *)
(***************************************************************************)
\* None, where a string is expected
None == "<None>"
\* None, where a list of strings is expected
NoneList == <<"<None>">>

\* bool(x) of an Optional[str]
Truthy(t) == t # None /\ t # ""
\* bool(x) of an Optional[List[str]]
TruthyList(l) == l # NoneList /\ l # <<>>

(***************************************************************************)
(* Characters.                                                             *)
(***************************************************************************)
LowerLetters ==
  <<"a","b","c","d","e","f","g","h","i","j","k","l","m",
    "n","o","p","q","r","s","t","u","v","w","x","y","z">>
UpperLetters ==
  <<"A","B","C","D","E","F","G","H","I","J","K","L","M",
    "N","O","P","Q","R","S","T","U","V","W","X","Y","Z">>
Digits == {"0","1","2","3","4","5","6","7","8","9"}
Whitespace == {" "}

IsLower(c) == \E i \in 1..26 : LowerLetters[i] = c
IsUpper(c) == \E i \in 1..26 : UpperLetters[i] = c
IsLetter(c) == IsLower(c) \/ IsUpper(c)
\* \w of the re module
IsWordChar(c) == IsLetter(c) \/ c \in Digits \/ c = "_"

LowerChar(c) ==
  IF IsUpper(c) THEN LowerLetters[CHOOSE i \in 1..26 : UpperLetters[i] = c] ELSE c
UpperChar(c) ==
  IF IsLower(c) THEN UpperLetters[CHOOSE i \in 1..26 : LowerLetters[i] = c] ELSE c

(***************************************************************************)
(* str methods, on character sequences.                                    *)
(***************************************************************************)
Lower(s) == [i \in 1..Len(s) |-> LowerChar(s[i])]

\* str.title(): a letter is upper-cased after a non-letter, lower-cased after a letter
Title(s) ==
  [i \in 1..Len(s) |->
     IF i = 1 \/ ~IsLetter(s[i-1]) THEN UpperChar(s[i]) ELSE LowerChar(s[i])]

\* str.replace(old, new) for one-character old and new
ReplaceChar(s, old, new) == [i \in 1..Len(s) |-> IF s[i] = old THEN new ELSE s[i]]

StartsWith(s, p) == Len(p) <= Len(s) /\ SubSeq(s, 1, Len(p)) = p
EndsWith(s, p) == Len(p) <= Len(s) /\ SubSeq(s, Len(s) - Len(p) + 1, Len(s)) = p
\* sub in s
Contains(s, sub) ==
  \E i \in 1..(Len(s) - Len(sub) + 1) : SubSeq(s, i, i + Len(sub) - 1) = sub

\* str.lstrip(): s from its first character that is not whitespace
LStrip(s) ==
  IF \A i \in 1..Len(s) : s[i] \in Whitespace THEN <<>>
  ELSE SubSeq(s, CHOOSE i \in 1..Len(s) :
                   s[i] \notin Whitespace /\ \A j \in 1..(i - 1) : s[j] \in Whitespace,
              Len(s))
\* str.rstrip(): s up to its last character that is not whitespace
RStrip(s) ==
  IF \A i \in 1..Len(s) : s[i] \in Whitespace THEN <<>>
  ELSE SubSeq(s, 1, CHOOSE i \in 1..Len(s) :
                      s[i] \notin Whitespace /\ \A j \in (i + 1)..Len(s) : s[j] \in Whitespace)
Strip(s) == RStrip(LStrip(s))

\* the first whitespace-free run of s, s not starting with whitespace
FirstWord(s) ==
  IF \A i \in 1..Len(s) : s[i] \notin Whitespace THEN s
  ELSE SubSeq(s, 1, (CHOOSE i \in 1..Len(s) :
                       s[i] \in Whitespace /\ \A j \in 1..(i - 1) : s[j] \notin Whitespace) - 1)

\* str.split(): the whitespace-separated words
RECURSIVE Split(_)
Split(s) ==
  LET t == LStrip(s)
      w == FirstWord(t)
  IN  IF t = <<>> THEN <<>> ELSE <<w>> \o Split(SubSeq(t, Len(w) + 1, Len(t)))

\* re.sub(r'[^\w\s]', '', word)
CleanWord(w) == SelectSeq(w, LAMBDA c : IsWordChar(c) \/ c \in Whitespace)

InSeq(x, seq) == \E i \in 1..Len(seq) : seq[i] = x

(***************************************************************************)
(* The texts of the model and their characters.                            *)
(***************************************************************************)
TextTable ==
  {
    <<"a red fox",
      <<"a"," ","r","e","d"," ","f","o","x">>>>,
    <<"a sad fox",
      <<"a"," ","s","a","d"," ","f","o","x">>>>,
    <<"a sad and angry fox",
      <<"a"," ","s","a","d"," ","a","n","d"," ","a","n","g","r","y"," ","f","o","x">>>>,
    <<"a worried and lonely fox",
      <<"a"," ","w","o","r","r","i","e","d"," ","a","n","d"," ","l","o","n","e","l","y"," ","f","o","x">>>>,
    <<"a lonely and worried fox",
      <<"a"," ","l","o","n","e","l","y"," ","a","n","d"," ","w","o","r","r","i","e","d"," ","f","o","x">>>>,
    <<"You are lonely and sad, crying about your failure. Feeling lonely again.",
      <<"Y","o","u"," ","a","r","e"," ","l","o","n","e","l","y"," ","a","n","d"," ","s","a","d",","," ","c","r","y","i","n","g"," ","a","b","o","u","t"," ","y","o","u","r"," ","f","a","i","l","u","r","e","."," ","F","e","e","l","i","n","g"," ","l","o","n","e","l","y"," ","a","g","a","i","n",".">>>>,
    <<"a sad happy fox",
      <<"a"," ","s","a","d"," ","h","a","p","p","y"," ","f","o","x">>>>,
    <<"a scared and sad fox",
      <<"a"," ","s","c","a","r","e","d"," ","a","n","d"," ","s","a","d"," ","f","o","x">>>>,
    <<"a sad, worried and lonely fox",
      <<"a"," ","s","a","d",","," ","w","o","r","r","i","e","d"," ","a","n","d"," ","l","o","n","e","l","y"," ","f","o","x">>>>,
    <<"an upset, lonely and sad fox",
      <<"a","n"," ","u","p","s","e","t",","," ","l","o","n","e","l","y"," ","a","n","d"," ","s","a","d"," ","f","o","x">>>>,
    <<"",
      <<>>>>,
    <<"a happy fox",
      <<"a"," ","h","a","p","p","y"," ","f","o","x">>>>,
    <<"a fox will kill",
      <<"a"," ","f","o","x"," ","w","i","l","l"," ","k","i","l","l">>>>,
    <<"a lonely fox",
      <<"a"," ","l","o","n","e","l","y"," ","f","o","x">>>>,
    <<"go on",
      <<"g","o"," ","o","n">>>>,
    <<"sing",
      <<"s","i","n","g">>>>,
    <<"look",
      <<"l","o","o","k">>>>,
    <<"hit it",
      <<"h","i","t"," ","i","t">>>>,
    <<"open the door",
      <<"o","p","e","n"," ","t","h","e"," ","d","o","o","r">>>>,
    <<"kill it",
      <<"k","i","l","l"," ","i","t">>>>,
    <<"dark_forest",
      <<"d","a","r","k","_","f","o","r","e","s","t">>>>,
    <<"You find yourself in a wonderful, magical place on your Dark Forest adventure. Everything around you is peaceful, colorful, inviting, and filled with amazing possibilities!",
      <<"Y","o","u"," ","f","i","n","d"," ","y","o","u","r","s","e","l","f"," ","i","n"," ","a"," ","w","o","n","d","e","r","f","u","l",","," ","m","a","g","i","c","a","l"," ","p","l","a","c","e"," ","o","n"," ","y","o","u","r"," ","D","a","r","k"," ","F","o","r","e","s","t"," ","a","d","v","e","n","t","u","r","e","."," ","E","v","e","r","y","t","h","i","n","g"," ","a","r","o","u","n","d"," ","y","o","u"," ","i","s"," ","p","e","a","c","e","f","u","l",","," ","c","o","l","o","r","f","u","l",","," ","i","n","v","i","t","i","n","g",","," ","a","n","d"," ","f","i","l","l","e","d"," ","w","i","t","h"," ","a","m","a","z","i","n","g"," ","p","o","s","s","i","b","i","l","i","t","i","e","s","!">>>>,
    <<"space_adventure",
      <<"s","p","a","c","e","_","a","d","v","e","n","t","u","r","e">>>>,
    <<"You find yourself in a wonderful, magical place on your Space Adventure adventure. Everything around you is peaceful, colorful, inviting, and filled with amazing possibilities!",
      <<"Y","o","u"," ","f","i","n","d"," ","y","o","u","r","s","e","l","f"," ","i","n"," ","a"," ","w","o","n","d","e","r","f","u","l",","," ","m","a","g","i","c","a","l"," ","p","l","a","c","e"," ","o","n"," ","y","o","u","r"," ","S","p","a","c","e"," ","A","d","v","e","n","t","u","r","e"," ","a","d","v","e","n","t","u","r","e","."," ","E","v","e","r","y","t","h","i","n","g"," ","a","r","o","u","n","d"," ","y","o","u"," ","i","s"," ","p","e","a","c","e","f","u","l",","," ","c","o","l","o","r","f","u","l",","," ","i","n","v","i","t","i","n","g",","," ","a","n","d"," ","f","i","l","l","e","d"," ","w","i","t","h"," ","a","m","a","z","i","n","g"," ","p","o","s","s","i","b","i","l","i","t","i","e","s","!">>>>,
    <<"Look around at the beautiful scenery",
      <<"L","o","o","k"," ","a","r","o","u","n","d"," ","a","t"," ","t","h","e"," ","b","e","a","u","t","i","f","u","l"," ","s","c","e","n","e","r","y">>>>,
    <<"Take a happy deep breath and think",
      <<"T","a","k","e"," ","a"," ","h","a","p","p","y"," ","d","e","e","p"," ","b","r","e","a","t","h"," ","a","n","d"," ","t","h","i","n","k">>>>,
    <<"Choose a fun direction to explore",
      <<"C","h","o","o","s","e"," ","a"," ","f","u","n"," ","d","i","r","e","c","t","i","o","n"," ","t","o"," ","e","x","p","l","o","r","e">>>>,
    <<"   ",
      <<" "," "," ">>>>,
    <<"aaaaaaaaaaaaaaaaaaaaaaaaaaaaaaaaaaaaaaaaaaaaaaaaaaaaaaaaaaaaaaaaaaaaaaaaaaaaaaaaaaaaaaaaaaaaaaaaaaaaaaaaaaaaaaaaaaaaaaaaaaaaaaaaaaaaaaaaaaaaaaaaaaaaaaaaaaaaaaaaaaaaaaaaaaaaaaaaaaaaaaaaaaaaaaaaaaaaaaaaaaaaaaaaaaaaaaaaaaaaaaaaaaaaaaaaaaaaaaaaaaaaaaaaaaaaaaaaaaaaaaaaaaaaaaaaaaaaaaaaaaaaaaaaaaaaaaaaaaaa",
      <<"a","a","a","a","a","a","a","a","a","a","a","a","a","a","a","a","a","a","a","a","a","a","a",
        "a","a","a","a","a","a","a","a","a","a","a","a","a","a","a","a","a","a","a","a","a","a","a",
        "a","a","a","a","a","a","a","a","a","a","a","a","a","a","a","a","a","a","a","a","a","a","a",
        "a","a","a","a","a","a","a","a","a","a","a","a","a","a","a","a","a","a","a","a","a","a","a",
        "a","a","a","a","a","a","a","a","a","a","a","a","a","a","a","a","a","a","a","a","a","a","a",
        "a","a","a","a","a","a","a","a","a","a","a","a","a","a","a","a","a","a","a","a","a","a","a",
        "a","a","a","a","a","a","a","a","a","a","a","a","a","a","a","a","a","a","a","a","a","a","a",
        "a","a","a","a","a","a","a","a","a","a","a","a","a","a","a","a","a","a","a","a","a","a","a",
        "a","a","a","a","a","a","a","a","a","a","a","a","a","a","a","a","a","a","a","a","a","a","a",
        "a","a","a","a","a","a","a","a","a","a","a","a","a","a","a","a","a","a","a","a","a","a","a",
        "a","a","a","a","a","a","a","a","a","a","a","a","a","a","a","a","a","a","a","a","a","a","a",
        "a","a","a","a","a","a","a","a","a","a","a","a","a","a","a","a","a","a","a","a","a","a","a",
        "a","a","a","a","a","a","a","a","a","a","a","a","a","a","a","a","a","a","a","a","a","a","a",
        "a">>>>,
    <<"visit http://x.com kill ab ab ab ab ab ab ab ab ab ab ab ab ab ab ab ab ab ab ab ab ab ab ab ab ab ab ab ab ab ab ab ab ab ab ab ab ab ab ab ab ab ab ab ab ab ab ab ab ab ab ab ab ab ab ab ab ab ab ab ab ab ab ab ab ab ab ab ab ab ab ab ab ab ab ab ab ab ab ab ab ab ab ab ab ab ab ab ab ab ab ab ab ",
      <<"v","i","s","i","t"," ","h","t","t","p",":","/","/","x",".","c","o","m"," ","k","i","l","l",
        " ","a","b"," ","a","b"," ","a","b"," ","a","b"," ","a","b"," ","a","b"," ","a","b"," ","a",
        "b"," ","a","b"," ","a","b"," ","a","b"," ","a","b"," ","a","b"," ","a","b"," ","a","b"," ",
        "a","b"," ","a","b"," ","a","b"," ","a","b"," ","a","b"," ","a","b"," ","a","b"," ","a","b",
        " ","a","b"," ","a","b"," ","a","b"," ","a","b"," ","a","b"," ","a","b"," ","a","b"," ","a",
        "b"," ","a","b"," ","a","b"," ","a","b"," ","a","b"," ","a","b"," ","a","b"," ","a","b"," ",
        "a","b"," ","a","b"," ","a","b"," ","a","b"," ","a","b"," ","a","b"," ","a","b"," ","a","b",
        " ","a","b"," ","a","b"," ","a","b"," ","a","b"," ","a","b"," ","a","b"," ","a","b"," ","a",
        "b"," ","a","b"," ","a","b"," ","a","b"," ","a","b"," ","a","b"," ","a","b"," ","a","b"," ",
        "a","b"," ","a","b"," ","a","b"," ","a","b"," ","a","b"," ","a","b"," ","a","b"," ","a","b",
        " ","a","b"," ","a","b"," ","a","b"," ","a","b"," ","a","b"," ","a","b"," ","a","b"," ","a",
        "b"," ","a","b"," ","a","b"," ","a","b"," ","a","b"," ","a","b"," ","a","b"," ","a","b"," ",
        "a","b"," ","a","b"," ","a","b"," ","a","b"," ","a","b"," ","a","b"," ","a","b"," ","a","b",
        " ">>>>,
    <<"                                                                                                                                                                                                                                                                                                            ",
      <<" "," "," "," "," "," "," "," "," "," "," "," "," "," "," "," "," "," "," "," "," "," "," ",
        " "," "," "," "," "," "," "," "," "," "," "," "," "," "," "," "," "," "," "," "," "," "," ",
        " "," "," "," "," "," "," "," "," "," "," "," "," "," "," "," "," "," "," "," "," "," "," ",
        " "," "," "," "," "," "," "," "," "," "," "," "," "," "," "," "," "," "," "," "," "," "," ",
        " "," "," "," "," "," "," "," "," "," "," "," "," "," "," "," "," "," "," "," "," "," "," ",
        " "," "," "," "," "," "," "," "," "," "," "," "," "," "," "," "," "," "," "," "," "," "," ",
        " "," "," "," "," "," "," "," "," "," "," "," "," "," "," "," "," "," "," "," "," "," "," ",
        " "," "," "," "," "," "," "," "," "," "," "," "," "," "," "," "," "," "," "," "," "," "," ",
        " "," "," "," "," "," "," "," "," "," "," "," "," "," "," "," "," "," "," "," "," "," "," ",
        " "," "," "," "," "," "," "," "," "," "," "," "," "," "," "," "," "," "," "," "," "," "," ",
        " "," "," "," "," "," "," "," "," "," "," "," "," "," "," "," "," "," "," "," "," "," "," ",
        " "," "," "," "," "," "," "," "," "," "," "," "," "," "," "," "," "," "," "," "," "," "," ",
        " "," "," "," "," "," "," "," "," "," "," "," "," "," "," "," "," "," "," "," "," "," "," ",
        " ">>>>,
    <<"go on go on go on go on go on go on go on go on go on go on go on go on go on go on go on go on go on go on go on go on go on go on go on go on go on go on go on go on go on go on go on go on go on go",
      <<"g","o"," ","o","n"," ","g","o"," ","o","n"," ","g","o"," ","o","n"," ","g","o"," ","o","n",
        " ","g","o"," ","o","n"," ","g","o"," ","o","n"," ","g","o"," ","o","n"," ","g","o"," ","o",
        "n"," ","g","o"," ","o","n"," ","g","o"," ","o","n"," ","g","o"," ","o","n"," ","g","o"," ",
        "o","n"," ","g","o"," ","o","n"," ","g","o"," ","o","n"," ","g","o"," ","o","n"," ","g","o",
        " ","o","n"," ","g","o"," ","o","n"," ","g","o"," ","o","n"," ","g","o"," ","o","n"," ","g",
        "o"," ","o","n"," ","g","o"," ","o","n"," ","g","o"," ","o","n"," ","g","o"," ","o","n"," ",
        "g","o"," ","o","n"," ","g","o"," ","o","n"," ","g","o"," ","o","n"," ","g","o"," ","o","n",
        " ","g","o"," ","o","n"," ","g","o"," ","o","n"," ","g","o"," ","o","n"," ","g","o"," ","o",
        "n"," ","g","o"," ","o","n"," ","g","o"," ","o","n"," ","g","o">>>>,
    <<"go on go on go on go on go on go on go on go on go on go on go on go on go on go on go on go on go on go on go on go on go on go on go on go on go on go on go on go on go on go on go on go on go on goo",
      <<"g","o"," ","o","n"," ","g","o"," ","o","n"," ","g","o"," ","o","n"," ","g","o"," ","o","n",
        " ","g","o"," ","o","n"," ","g","o"," ","o","n"," ","g","o"," ","o","n"," ","g","o"," ","o",
        "n"," ","g","o"," ","o","n"," ","g","o"," ","o","n"," ","g","o"," ","o","n"," ","g","o"," ",
        "o","n"," ","g","o"," ","o","n"," ","g","o"," ","o","n"," ","g","o"," ","o","n"," ","g","o",
        " ","o","n"," ","g","o"," ","o","n"," ","g","o"," ","o","n"," ","g","o"," ","o","n"," ","g",
        "o"," ","o","n"," ","g","o"," ","o","n"," ","g","o"," ","o","n"," ","g","o"," ","o","n"," ",
        "g","o"," ","o","n"," ","g","o"," ","o","n"," ","g","o"," ","o","n"," ","g","o"," ","o","n",
        " ","g","o"," ","o","n"," ","g","o"," ","o","n"," ","g","o"," ","o","n"," ","g","o"," ","o",
        "n"," ","g","o"," ","o","n"," ","g","o"," ","o","n"," ","g","o","o">>>>,
    <<"visit http://x.com",
      <<"v","i","s","i","t"," ","h","t","t","p",":","/","/","x",".","c","o","m">>>>,
    <<"kill http://x.com",
      <<"k","i","l","l"," ","h","t","t","p",":","/","/","x",".","c","o","m">>>>,
    <<"a complex door",
      <<"a"," ","c","o","m","p","l","e","x"," ","d","o","o","r">>>>,
    <<"10.0.0.1",
      <<"1","0",".","0",".","0",".","1">>>>,
    <<"10.0.0.1, 10.0.0.2",
      <<"1","0",".","0",".","0",".","1",","," ","1","0",".","0",".","0",".","2">>>>,
    <<" 10.0.0.1 ,10.0.0.2",
      <<" ","1","0",".","0",".","0",".","1"," ",",","1","0",".","0",".","0",".","2">>>>,
    <<", 10.0.0.2",
      <<","," ","1","0",".","0",".","0",".","2">>>>,
    <<"10.0.0.3",
      <<"1","0",".","0",".","0",".","3">>>>,
    <<"10.0.0.4",
      <<"1","0",".","0",".","0",".","4">>>>,
    <<"unknown",
      <<"u","n","k","n","o","w","n">>>>,
    <<"a ghost and a fox",
      <<"a"," ","g","h","o","s","t"," ","a","n","d"," ","a"," ","f","o","x">>>>,
    <<"ghost and a fox",
      <<"g","h","o","s","t"," ","a","n","d"," ","a"," ","f","o","x">>>>,
    <<"a fox and a ghost",
      <<"a"," ","f","o","x"," ","a","n","d"," ","a"," ","g","h","o","s","t">>>>,
    <<"a ghost, a fox",
      <<"a"," ","g","h","o","s","t",","," ","a"," ","f","o","x">>>>,
    <<"a fox and a ghost.",
      <<"a"," ","f","o","x"," ","a","n","d"," ","a"," ","g","h","o","s","t",".">>>>,
    <<"warm milk for a fox",
      <<"w","a","r","m"," ","m","i","l","k"," ","f","o","r"," ","a"," ","f","o","x">>>>,
    <<"a fox is unafraid",
      <<"a"," ","f","o","x"," ","i","s"," ","u","n","a","f","r","a","i","d">>>>,
    <<"a warm fox",
      <<"a"," ","w","a","r","m"," ","f","o","x">>>>,
    <<"pet the ghost!",
      <<"p","e","t"," ","t","h","e"," ","g","h","o","s","t","!">>>>,
    <<"warm up",
      <<"w","a","r","m"," ","u","p">>>>,
    <<"Fight the dragon",
      <<"F","i","g","h","t"," ","t","h","e"," ","d","r","a","g","o","n">>>>,
    <<"You see a scary monster in the dark forest",
      <<"Y","o","u"," ","s","e","e"," ","a"," ","s","c","a","r","y"," ","m","o","n","s","t","e","r"," ","i","n"," ","t","h","e"," ","d","a","r","k"," ","f","o","r","e","s","t">>>>
  }
Texts == {p[1] : p \in TextTable}
Chars(t) == (CHOOSE p \in TextTable : p[1] = t)[2]
\* the string with the given characters
Str(cs) == (CHOOSE p \in TextTable : p[2] = cs)[1]

(***************************************************************************)
(* EnhancedSafetyFilter: word lists.                                       *)
(***************************************************************************)
banned_words ==
  <<
    <<"k","i","l","l">>, <<"m","u","r","d","e","r">>, <<"d","e","a","t","h">>, <<"d","i","e">>,
    <<"d","e","a","d">>, <<"d","y","i","n","g">>, <<"k","i","l","l","e","d">>,
    <<"b","l","o","o","d">>, <<"g","o","r","e">>, <<"w","o","u","n","d">>,
    <<"i","n","j","u","r","y">>, <<"h","u","r","t">>, <<"p","a","i","n">>,
    <<"s","u","f","f","e","r">>, <<"w","e","a","p","o","n">>, <<"g","u","n">>,
    <<"r","i","f","l","e">>, <<"p","i","s","t","o","l">>, <<"s","h","o","o","t">>,
    <<"s","h","o","t">>, <<"k","n","i","f","e">>, <<"s","t","a","b">>, <<"b","l","a","d","e">>,
    <<"d","a","g","g","e","r">>, <<"s","w","o","r","d">>, <<"a","x","e">>, <<"s","p","e","a","r">>,
    <<"b","o","m","b">>, <<"e","x","p","l","o","d","e">>, <<"e","x","p","l","o","s","i","o","n">>,
    <<"f","i","g","h","t">>, <<"a","t","t","a","c","k">>, <<"p","u","n","c","h">>,
    <<"k","i","c","k">>, <<"h","i","t">>, <<"s","t","r","i","k","e">>, <<"w","a","r">>,
    <<"b","a","t","t","l","e">>, <<"c","o","m","b","a","t">>, <<"d","e","s","t","r","o","y">>,
    <<"d","e","s","t","r","u","c","t","i","o","n">>, <<"s","c","a","r","y">>,
    <<"t","e","r","r","i","f","y">>, <<"t","e","r","r","o","r">>, <<"f","e","a","r">>,
    <<"a","f","r","a","i","d">>, <<"f","r","i","g","h","t","e","n","i","n","g">>,
    <<"h","o","r","r","o","r">>, <<"h","o","r","r","i","f","y">>,
    <<"n","i","g","h","t","m","a","r","e">>, <<"d","r","e","a","d">>,
    <<"m","o","n","s","t","e","r">>, <<"b","e","a","s","t">>, <<"c","r","e","a","t","u","r","e">>,
    <<"d","e","m","o","n">>, <<"d","e","v","i","l">>, <<"g","h","o","s","t">>,
    <<"s","p","i","r","i","t">>, <<"h","a","u","n","t","e","d">>, <<"s","p","o","o","k","y">>,
    <<"z","o","m","b","i","e">>, <<"v","a","m","p","i","r","e">>,
    <<"w","e","r","e","w","o","l","f">>, <<"u","n","d","e","a","d">>, <<"e","v","i","l">>,
    <<"w","i","c","k","e","d">>, <<"s","i","n","i","s","t","e","r">>, <<"d","a","r","k">>,
    <<"d","a","r","k","n","e","s","s">>, <<"h","a","t","e">>, <<"h","a","t","r","e","d">>,
    <<"d","e","s","p","i","s","e">>, <<"l","o","a","t","h","e">>, <<"s","t","u","p","i","d">>,
    <<"i","d","i","o","t">>, <<"d","u","m","b">>, <<"m","o","r","o","n">>, <<"f","o","o","l">>,
    <<"u","g","l","y">>, <<"h","i","d","e","o","u","s">>,
    <<"d","i","s","g","u","s","t","i","n","g">>, <<"g","r","o","s","s">>, <<"b","a","d">>,
    <<"t","e","r","r","i","b","l","e">>, <<"a","w","f","u","l">>,
    <<"h","o","r","r","i","b","l","e">>, <<"s","t","e","a","l">>, <<"t","h","i","e","f">>,
    <<"r","o","b">>, <<"r","o","b","b","e","r","y">>, <<"l","i","e">>, <<"l","i","a","r">>,
    <<"c","h","e","a","t">>, <<"d","e","c","e","i","v","e">>, <<"b","u","l","l","y">>,
    <<"m","e","a","n">>, <<"c","r","u","e","l">>, <<"n","a","s","t","y">>, <<"h","e","l","l">>,
    <<"d","a","m","n">>, <<"d","a","m","m","i","t">>, <<"c","r","a","p">>, <<"s","u","c","k">>,
    <<"d","a","n","g","e","r">>, <<"d","a","n","g","e","r","o","u","s">>,
    <<"h","a","z","a","r","d">>, <<"p","e","r","i","l">>, <<"p","o","i","s","o","n">>,
    <<"t","o","x","i","c">>, <<"v","e","n","o","m">>, <<"t","r","a","p">>,
    <<"t","r","a","p","p","e","d">>, <<"c","a","p","t","u","r","e">>, <<"c","a","u","g","h","t">>,
    <<"l","o","s","t">>, <<"a","l","o","n","e">>, <<"a","b","a","n","d","o","n","e","d">>,
    <<"s","t","r","a","n","d","e","d">>, <<"d","e","p","r","e","s","s","e","d">>,
    <<"d","e","p","r","e","s","s","i","o","n">>, <<"m","i","s","e","r","a","b","l","e">>,
    <<"h","o","p","e","l","e","s","s">>, <<"d","e","s","p","a","i","r">>,
    <<"a","n","g","u","i","s","h">>, <<"a","g","o","n","y">>, <<"t","o","r","m","e","n","t">>
  >>

\* weights in tenths
negative_indicators ==
  <<
    <<<<"s","a","d">>, -3>>, <<<<"c","r","y">>, -3>>, <<<<"c","r","y","i","n","g">>, -3>>,
    <<<<"t","e","a","r","s">>, -2>>, <<<<"a","f","r","a","i","d">>, -4>>,
    <<<<"s","c","a","r","e","d">>, -4>>, <<<<"f","e","a","r">>, -4>>,
    <<<<"f","r","i","g","h","t","e","n","e","d">>, -4>>, <<<<"w","o","r","r","i","e","d">>, -2>>,
    <<<<"a","n","x","i","o","u","s">>, -2>>, <<<<"n","e","r","v","o","u","s">>, -2>>,
    <<<<"l","o","n","e","l","y">>, -4>>, <<<<"a","l","o","n","e">>, -3>>,
    <<<<"l","o","s","t">>, -4>>, <<<<"a","n","g","r","y">>, -3>>, <<<<"m","a","d">>, -3>>,
    <<<<"u","p","s","e","t">>, -2>>, <<<<"f","a","i","l">>, -3>>,
    <<<<"f","a","i","l","e","d">>, -3>>, <<<<"f","a","i","l","u","r","e">>, -3>>,
    <<<<"w","r","o","n","g">>, -2>>, <<<<"m","i","s","t","a","k","e">>, -2>>,
    <<<<"e","r","r","o","r">>, -2>>, <<<<"d","a","r","k">>, -2>>,
    <<<<"d","a","r","k","n","e","s","s">>, -3>>, <<<<"s","h","a","d","o","w">>, -2>>,
    <<<<"c","o","l","d">>, -1>>, <<<<"r","a","i","n">>, -1>>, <<<<"s","t","o","r","m">>, -2>>
  >>

positive_indicators ==
  <<
    <<<<"h","a","p","p","y">>, 4>>, <<<<"j","o","y">>, 4>>, <<<<"j","o","y","f","u","l">>, 4>>,
    <<<<"c","h","e","e","r","f","u","l">>, 4>>, <<<<"f","u","n">>, 3>>,
    <<<<"e","x","c","i","t","i","n","g">>, 4>>, <<<<"e","x","c","i","t","e","d">>, 4>>,
    <<<<"w","o","n","d","e","r","f","u","l">>, 4>>, <<<<"a","m","a","z","i","n","g">>, 4>>,
    <<<<"a","w","e","s","o","m","e">>, 4>>, <<<<"b","e","a","u","t","i","f","u","l">>, 3>>,
    <<<<"p","r","e","t","t","y">>, 3>>, <<<<"l","o","v","e","l","y">>, 3>>,
    <<<<"k","i","n","d">>, 3>>, <<<<"f","r","i","e","n","d","l","y">>, 3>>,
    <<<<"h","e","l","p","f","u","l">>, 3>>, <<<<"b","r","a","v","e">>, 4>>,
    <<<<"c","o","u","r","a","g","e","o","u","s">>, 4>>, <<<<"s","t","r","o","n","g">>, 3>>,
    <<<<"c","l","e","v","e","r">>, 3>>, <<<<"s","m","a","r","t">>, 3>>, <<<<"w","i","s","e">>, 3>>,
    <<<<"d","i","s","c","o","v","e","r">>, 3>>, <<<<"e","x","p","l","o","r","e">>, 3>>,
    <<<<"a","d","v","e","n","t","u","r","e">>, 4>>, <<<<"f","r","i","e","n","d">>, 3>>,
    <<<<"t","o","g","e","t","h","e","r">>, 2>>, <<<<"h","e","l","p">>, 2>>,
    <<<<"s","m","i","l","e">>, 3>>, <<<<"l","a","u","g","h">>, 4>>,
    <<<<"g","i","g","g","l","e">>, 4>>, <<<<"b","r","i","g","h","t">>, 2>>,
    <<<<"s","u","n","s","h","i","n","e">>, 3>>, <<<<"r","a","i","n","b","o","w">>, 3>>
  >>

(***************************************************************************)
(* EnhancedSafetyFilter._load_inappropriate_patterns, on sanitized input.  *)
(* Every pattern is compiled with re.IGNORECASE and used with search().    *)
(***************************************************************************)
NonSpaceAt(s, i) == i >= 1 /\ i <= Len(s) /\ s[i] \notin Whitespace
WordCharAt(s, i) == i >= 1 /\ i <= Len(s) /\ IsWordChar(s[i])

\* r"https?://\S+"
PatternUrl(s) ==
  LET l == Lower(s)
  IN  \E i \in 1..Len(s) :
        \/ StartsWith(SubSeq(l, i, Len(l)), <<"h","t","t","p",":","/","/">>) /\ NonSpaceAt(s, i + 7)
        \/ StartsWith(SubSeq(l, i, Len(l)), <<"h","t","t","p","s",":","/","/">>) /\ NonSpaceAt(s, i + 8)
\* r"www\.\S+"
PatternWww(s) ==
  LET l == Lower(s)
  IN  \E i \in 1..Len(s) :
        StartsWith(SubSeq(l, i, Len(l)), <<"w","w","w",".">>) /\ NonSpaceAt(s, i + 4)
\* r"\S+@\S+\.\S+"
PatternEmail(s) ==
  \E i \in 1..Len(s) : \E j \in (i+1)..Len(s) :
    /\ s[i] = "@" /\ NonSpaceAt(s, i - 1)
    /\ s[j] = "." /\ j > i + 1 /\ NonSpaceAt(s, j + 1)
    /\ \A k \in (i+1)..(j-1) : NonSpaceAt(s, k)
\* r"@\w+"
PatternHandle(s) == \E i \in 1..Len(s) : s[i] = "@" /\ WordCharAt(s, i + 1)
\* r"#\w+"
PatternHashtag(s) == \E i \in 1..Len(s) : s[i] = "#" /\ WordCharAt(s, i + 1)
\* r"(.)\1{4,}" with IGNORECASE: the back-reference matches case-insensitively
PatternRepeated(s) ==
  LET l == Lower(s)
  IN  \E i \in 1..(Len(s) - 4) : \A k \in 1..4 : l[i + k] = l[i]
\* r"\b[A-Z]{5,}\b.*\b[A-Z]{5,}\b.*\b[A-Z]{5,}\b" with IGNORECASE:
\* three runs of five or more letters, each delimited by word boundaries
LetterRun(s, i, j) ==
  /\ j - i + 1 >= 5
  /\ \A k \in i..j : IsLetter(s[k])
  /\ ~WordCharAt(s, i - 1)
  /\ ~WordCharAt(s, j + 1)
PatternCaps(s) ==
  \E a \in 1..Len(s) : \E b \in a..Len(s) :
    /\ LetterRun(s, a, b)
    /\ \E c \in (b+1)..Len(s) : \E d \in c..Len(s) :
         /\ LetterRun(s, c, d)
         /\ \E e \in (d+1)..Len(s) : \E f \in e..Len(s) : LetterRun(s, e, f)

\* The phone, ZIP, street-address and card patterns need a digit; the texts of
\* the model hold none, so these four patterns cannot match and are left out.
MatchesInappropriatePattern(s) ==
  \/ PatternUrl(s) \/ PatternWww(s) \/ PatternEmail(s)
  \/ PatternHandle(s) \/ PatternHashtag(s)
  \/ PatternRepeated(s) \/ PatternCaps(s)

\* _load_age_inappropriate_words
age_inappropriate_words(age_range) ==
  IF age_range = "6-8" THEN
    <<<<"s","a","c","r","i","f","i","c","e">>,
      <<"b","e","t","r","a","y","a","l">>,
      <<"r","e","v","e","n","g","e">>,
      <<"c","o","n","s","p","i","r","a","c","y">>,
      <<"p","o","l","i","t","i","c","s">>,
      <<"w","a","r">>,
      <<"b","a","t","t","l","e">>,
      <<"c","o","n","f","l","i","c","t">>,
      <<"c","o","m","p","l","e","x">>,
      <<"c","o","m","p","l","i","c","a","t","e","d">>,
      <<"s","o","p","h","i","s","t","i","c","a","t","e","d">>,
      <<"a","b","s","t","r","a","c","t">>,
      <<"t","h","e","o","r","e","t","i","c","a","l">>,
      <<"p","h","i","l","o","s","o","p","h","i","c","a","l">>>>
  ELSE IF age_range = "9-12" THEN
    <<<<"s","u","i","c","i","d","e">>,
      <<"d","e","p","r","e","s","s","i","o","n">>,
      <<"m","e","n","t","a","l">>,
      <<"t","h","e","r","a","p","y">>,
      <<"r","o","m","a","n","t","i","c">>,
      <<"l","o","v","e">>,
      <<"d","a","t","i","n","g">>,
      <<"r","e","l","a","t","i","o","n","s","h","i","p">>>>
  ELSE <<>>
AgeRangesWithList == {"6-8", "9-12"}

(***************************************************************************)
(* EnhancedSafetyFilter: the checks.                                       *)
(***************************************************************************)
\* the outcome of one call of the moderation endpoint
ModerationVerdicts == {"clean", "flagged", "error"}

\* _check_moderation_api that treats a failed call as a rejection
CheckModerationApi_FailClosed(use_api, verdict) ==
  IF ~use_api THEN TRUE
  ELSE IF verdict \in {"flagged", "error"} THEN FALSE
  ELSE TRUE

\* _check_moderation_api: is_safe.  A transport error fails open.
CheckModerationApi(use_api, verdict) ==
  IF ~use_api THEN TRUE
  ELSE IF verdict = "flagged" THEN FALSE
  ELSE TRUE

\* some word of the text, stripped of punctuation, is in the list
HasListedWord(cs, list) ==
  LET words == Split(Lower(cs))
  IN  \E i \in 1..Len(words) : InSeq(CleanWord(words[i]), list)

\* the banned-word test of validate_llm_output on one text
BannedWordHit(cs, word) ==
  LET l == Lower(cs)
  IN  \/ Contains(<<" ">> \o l \o <<" ">>, <<" ">> \o word \o <<" ">>)
      \/ StartsWith(l, word)
      \/ EndsWith(l, word)
HasBannedWord(cs) == \E i \in 1..Len(banned_words) : BannedWordHit(cs, banned_words[i])

\* weight of a word in a lexicon, 0 when absent
Weight(lexicon, w) ==
  IF \E i \in 1..Len(lexicon) : lexicon[i][1] = w
  THEN lexicon[CHOOSE i \in 1..Len(lexicon) : lexicon[i][1] = w][2]
  ELSE 0
InLexicon(lexicon, w) == \E i \in 1..Len(lexicon) : lexicon[i][1] = w

(***************************************************************************)
(* Python floats.  Every float _analyze_sentiment meets is a double close  *)
(* to a whole number of tenths; [k, d] stands for the real number          *)
(* (k * 2^56 + d) / (10 * 2^56): k tenths and an offset of d tenths of     *)
(* 2^-56.  Sums are rounded to the nearest double, ties to the even        *)
(* mantissa, as float.__add__ rounds them.                                 *)
(***************************************************************************)
RECURSIVE Pow2(_)
Pow2(n) == IF n = 0 THEN 1 ELSE 2 * Pow2(n - 1)
\* 2^n modulo m
RECURSIVE Pow2Mod(_, _)
Pow2Mod(n, m) == IF n = 0 THEN 1 % m ELSE (2 * Pow2Mod(n - 1, m)) % m

\* the exponent e with 2^e <= x < 2^(e+1), for x = [K, D] positive, below 4
Binade(K, D) ==
  IF K = 1 THEN -4
  ELSE IF K = 2 THEN -3
  ELSE IF K < 5 THEN -2
  ELSE IF K = 5 THEN (IF D >= 0 THEN -1 ELSE -2)
  ELSE IF K < 10 THEN -1
  ELSE IF K = 10 THEN (IF D >= 0 THEN 0 ELSE -1)
  ELSE IF K < 20 THEN 0
  ELSE IF K = 20 THEN (IF D >= 0 THEN 1 ELSE 0)
  ELSE 1
\* the gap between neighbouring doubles of magnitude [K, D], in tenths of 2^-56
Ulp(K, D) == 10 * Pow2(Binade(K, D) + 4)
\* whether the mantissa of the double [K, D] is odd
MantissaOdd(K, D) ==
  LET e == Binade(K, D)
  IN  ((((K * Pow2Mod(52 - e, 20)) % 20) + (D \div Pow2(e + 4))) % 20) \div 10 = 1

\* the double nearest to the real number [k, d], ties to even
RoundToDouble(k, d) ==
  IF k = 0 THEN [k |-> 0, d |-> d]
  ELSE LET neg == k < 0
           K == IF neg THEN -k ELSE k
           D == IF neg THEN -d ELSE d
           e == Binade(K, D)
           G == Ulp(K, D)
           rem == (Pow2(e + 4) * ((K * Pow2Mod(52 - e, 10)) % 10) + D) % G
           below == D - rem
           above == below + G
           Dr == IF rem = 0 THEN D
                 ELSE IF 2 * rem < G THEN below
                 ELSE IF 2 * rem > G THEN above
                 ELSE IF MantissaOdd(K, below) THEN above ELSE below
       IN  [k |-> k, d |-> IF neg THEN -Dr ELSE Dr]

\* the float a literal of k tenths denotes: -0.3 is Double(-3)
Double(k) == RoundToDouble(k, 0)
\* x + y on floats
FloatAdd(x, y) == RoundToDouble(x.k + y.k, x.d + y.d)

\* x / n < t on floats, for an int n >= 1 and a negative t: rounding is monotonic,
\* so the quotient rounds below t exactly when x / n lies below the middle
\* between t and the double before it, or on that middle when the tie goes
\* to the double before t (the mantissa of t is odd)
QuotientLess(x, n, t) ==
  LET mk == n * t.k
      md == n * (t.d - Ulp(-t.k, -t.d) \div 2)
  IN  \/ x.k < mk
      \/ x.k = mk /\ x.d < md
      \/ x.k = mk /\ x.d = md /\ MantissaOdd(-t.k, -t.d)

\* the loop of _analyze_sentiment over words, from <<score, word_count>> on
RECURSIVE SentimentSum(_, _)
SentimentSum(words, acc) ==
  IF words = <<>> THEN acc
  ELSE LET w == CleanWord(Head(words))
       IN  IF InLexicon(negative_indicators, w)
             THEN SentimentSum(Tail(words),
                               <<FloatAdd(acc[1], Double(Weight(negative_indicators, w))),
                                 acc[2] + 1>>)
           ELSE IF InLexicon(positive_indicators, w)
             THEN SentimentSum(Tail(words),
                               <<FloatAdd(acc[1], Double(Weight(positive_indicators, w))),
                                 acc[2] + 1>>)
           ELSE SentimentSum(Tail(words), acc)
\* _analyze_sentiment up to the division: <<score, word_count>>, score = 0.0 at first
AnalyzeSentiment(cs) == SentimentSum(Split(Lower(cs)), <<Double(0), 0>>)
\* sentiment_score < -0.3, the score being max(min(score / word_count, 1.0), -1.0),
\* which is below -0.3 exactly when score / word_count is, or 0.0 without lexicon words
TooNegative(cs) ==
  LET sc == AnalyzeSentiment(cs)
  IN  sc[2] > 0 /\ QuotientLess(sc[1], sc[2], Double(SentimentThreshold))

\* filter_user_input with the pattern sweep ahead of the length cap
FilterUserInput_PatternBeforeLength(text, age_range, use_api, verdict) ==
  LET cs == Chars(text)
      sanitized == Strip(cs)
  IN  IF text = "" \/ sanitized = <<>>
        THEN [is_safe |-> FALSE, result |-> "Input cannot be empty",
              violation |-> "inappropriate_pattern", moderation_called |-> FALSE]
      ELSE IF MatchesInappropriatePattern(sanitized)
        THEN [is_safe |-> FALSE, result |-> "Please don't include personal information",
              violation |-> "inappropriate_pattern", moderation_called |-> FALSE]
      ELSE IF Len(cs) > max_input_length
        THEN [is_safe |-> FALSE, result |-> "Input too long",
              violation |-> "inappropriate_pattern", moderation_called |-> FALSE]
      ELSE IF HasListedWord(sanitized, banned_words)
        THEN [is_safe |-> FALSE, result |-> "Let's use kinder words in our story",
              violation |-> "banned_word", moderation_called |-> FALSE]
      ELSE IF age_range \in AgeRangesWithList
              /\ HasListedWord(sanitized, age_inappropriate_words(age_range))
        THEN [is_safe |-> FALSE, result |-> "Let's use simpler, more fun ideas",
              violation |-> "age_inappropriate", moderation_called |-> FALSE]
      ELSE IF ~CheckModerationApi(use_api, verdict)
        THEN [is_safe |-> FALSE, result |-> "Let's try a different idea",
              violation |-> "moderation_api", moderation_called |-> use_api]
      ELSE [is_safe |-> TRUE, result |-> Str(sanitized), violation |-> None,
            moderation_called |-> use_api]

\* filter_user_input: [is_safe, result, violation], and whether
\* _check_moderation_api was awaited on the way
FilterUserInput(text, age_range, use_api, verdict) ==
  LET cs == Chars(text)
      sanitized == Strip(cs)
  IN  IF text = "" \/ sanitized = <<>>
        THEN [is_safe |-> FALSE, result |-> "Input cannot be empty",
              violation |-> "inappropriate_pattern", moderation_called |-> FALSE]
      ELSE IF Len(cs) > max_input_length
        THEN [is_safe |-> FALSE, result |-> "Input too long",
              violation |-> "inappropriate_pattern", moderation_called |-> FALSE]
      ELSE IF MatchesInappropriatePattern(sanitized)
        THEN [is_safe |-> FALSE, result |-> "Please don't include personal information",
              violation |-> "inappropriate_pattern", moderation_called |-> FALSE]
      ELSE IF HasListedWord(sanitized, banned_words)
        THEN [is_safe |-> FALSE, result |-> "Let's use kinder words in our story",
              violation |-> "banned_word", moderation_called |-> FALSE]
      ELSE IF age_range \in AgeRangesWithList
              /\ HasListedWord(sanitized, age_inappropriate_words(age_range))
        THEN [is_safe |-> FALSE, result |-> "Let's use simpler, more fun ideas",
              violation |-> "age_inappropriate", moderation_called |-> FALSE]
      ELSE IF ~CheckModerationApi(use_api, verdict)
        THEN [is_safe |-> FALSE, result |-> "Let's try a different idea",
              violation |-> "moderation_api", moderation_called |-> use_api]
      ELSE [is_safe |-> TRUE, result |-> Str(sanitized), violation |-> None,
            moderation_called |-> use_api]

\* validate_llm_output: [is_valid, violation]
ValidateLLMOutput(scene_text, choices, age_range, use_api, verdict) ==
  LET cs == Chars(scene_text)
  IN  IF HasBannedWord(cs)
        THEN [is_valid |-> FALSE, violation |-> "banned_word"]
      ELSE IF TruthyList(choices) /\ \E i \in 1..Len(choices) : HasBannedWord(Chars(choices[i]))
        THEN [is_valid |-> FALSE, violation |-> "banned_word"]
      ELSE IF TooNegative(cs)
        THEN [is_valid |-> FALSE, violation |-> "negative_sentiment"]
      ELSE IF age_range \in AgeRangesWithList
              /\ HasListedWord(cs, age_inappropriate_words(age_range))
        THEN [is_valid |-> FALSE, violation |-> "age_inappropriate"]
      ELSE IF ~CheckModerationApi(use_api, verdict)
        THEN [is_valid |-> FALSE, violation |-> "moderation_api"]
      ELSE [is_valid |-> TRUE, violation |-> None]

FallbackHead ==
  <<"Y","o","u"," ","f","i","n","d"," ","y","o","u","r","s","e","l","f"," ","i","n"," ","a"," ","w","o","n","d","e","r","f","u","l",","," ","m","a","g","i","c","a","l"," ","p","l","a","c","e"," ","o","n"," ","y","o","u","r"," ">>
FallbackTail ==
  <<" ","a","d","v","e","n","t","u","r","e","."," ","E","v","e","r","y","t","h","i","n","g"," ","a","r","o","u","n","d"," ","y","o","u"," ","i","s"," ","p","e","a","c","e","f","u","l",","," ","c","o","l","o","r","f","u","l",","," ","i","n","v","i","t","i","n","g",","," ","a","n","d"," ","f","i","l","l","e","d"," ","w","i","t","h"," ","a","m","a","z","i","n","g"," ","p","o","s","s","i","b","i","l","i","t","i","e","s","!">>

\* a fallback that offers two choices
GetFallbackResponse_TwoChoices(theme) ==
  [scene_text |-> Str(FallbackHead \o Title(ReplaceChar(Chars(theme), "_", " ")) \o FallbackTail),
   choices |-> <<"Look around at the beautiful scenery",
                 "Take a happy deep breath and think">>]
\* get_fallback_response: (scene, choices)
GetFallbackResponse(theme) ==
  [scene_text |-> Str(FallbackHead \o Title(ReplaceChar(Chars(theme), "_", " ")) \o FallbackTail),
   choices |-> <<"Look around at the beautiful scenery",
                 "Take a happy deep breath and think",
                 "Choose a fun direction to explore">>]

(***************************************************************************)
(* Inputs of the model.                                                    *)
(***************************************************************************)
SessionIds == {"s1"}
Themes == {"space_adventure", "dark_forest"}
AgeRanges == {"6-8"}

GoodChoices == <<"go on", "sing", "look">>
\* LLMStoryResponse values the backend can return (the summary is left out)
GoodResponse == [scene_text |-> "a happy fox", choices |-> GoodChoices]
BannedSceneResponse == [scene_text |-> "a fox will kill", choices |-> GoodChoices]
NegativeResponse == [scene_text |-> "a lonely fox", choices |-> GoodChoices]
\* a scene with a word of age_inappropriate_words["6-8"]
AgeWordResponse == [scene_text |-> "a complex door", choices |-> GoodChoices]
BannedChoiceResponse == [scene_text |-> "a happy fox", choices |-> <<"go on", "hit it", "look">>]
NoChoicesResponse == [scene_text |-> "a happy fox", choices |-> NoneList]
EmptyChoicesResponse == [scene_text |-> "a happy fox", choices |-> <<>>]
LLMResponses ==
  {GoodResponse, BannedSceneResponse, NegativeResponse,
   BannedChoiceResponse, NoChoicesResponse, EmptyChoicesResponse}
StreamResponses == {GoodResponse, BannedSceneResponse, NoChoicesResponse}

NoLLMResponse == [scene_text |-> None, choices |-> NoneList]

\* what one call of generate_story_continuation does
BackendOutcomes ==
  {[kind |-> "raise", response |-> NoLLMResponse]}
    \cup {[kind |-> "response", response |-> r] : r \in LLMResponses}
\* what one run of generate_story_continuation_stream followed by _parse_llm_response does
StreamOutcomes ==
  {[kind |-> "raise", response |-> NoLLMResponse],
   [kind |-> "unparseable", response |-> NoLLMResponse]}
    \cup {[kind |-> "response", response |-> r] : r \in StreamResponses}

\* the action fields of a ContinueStoryRequest
ContinueInputs ==
  {[choice_id |-> "c1", choice_text |-> "go on", custom_input |-> None],
   [choice_id |-> None, choice_text |-> None, custom_input |-> "kill it"],
   [choice_id |-> None, choice_text |-> None, custom_input |-> None],
   [choice_id |-> "c1", choice_text |-> "go on", custom_input |-> "open the door"]}

\* the action fields of the continue requests of TurnSpec: those above, a choice
\* given by its id alone, a choice text without an id, an empty free text beside
\* a choice, and a free text with a word of age_inappropriate_words["6-8"]
TurnInputs ==
  ContinueInputs
    \cup {[choice_id |-> "c1", choice_text |-> None, custom_input |-> None],
          [choice_id |-> None, choice_text |-> "go on", custom_input |-> None],
          [choice_id |-> "c1", choice_text |-> "go on", custom_input |-> ""],
          [choice_id |-> None, choice_text |-> None, custom_input |-> "a complex door"]}

\* the verdicts the moderation endpoint can give when it is in use
VerdictsFor(use) == IF use THEN ModerationVerdicts ELSE {"clean"}

\* self.safety.validate_llm_output(scene_text, choices) as _call_llm_with_retry calls it:
\* without age_range.  Tabulated once for the responses of the model.
ValidateCall ==
  [r \in LLMResponses \cup {AgeWordResponse}, use \in BOOLEAN,
   verdict \in ModerationVerdicts |->
     ValidateLLMOutput(r.scene_text, r.choices, None, use, verdict)]

\* self.safety.filter_user_input(custom_input) as continue_story calls it:
\* without age_range.  Tabulated once for the inputs of the model.
FilterCall ==
  [t \in {in.custom_input : in \in {i \in TurnInputs : Truthy(i.custom_input)}},
   use \in BOOLEAN, verdict \in ModerationVerdicts |->
     FilterUserInput(t, None, use, verdict)]

(***************************************************************************)
(* RateLimiter.  Time is time.time() in ticks of half a second; an entry   *)
(* (timestamp, 1) of the code is kept as its timestamp.  The policy table  *)
(* is scaled down so that every window can be filled and can expire within *)
(* MaxClock; the order of the code's numbers is kept (the code's values    *)
(* are given on each line).                                                *)
(***************************************************************************)
\* ticks per second of the clock
TicksPerSecond == 2

\* self.limits
limits ==
  [session_turns_per_hour |-> [max_requests |-> 2, window_seconds |-> 2],   \* 20, 3600
   session_turns_per_day  |-> [max_requests |-> 3, window_seconds |-> 4],   \* 100, 86400
   custom_input_per_10min |-> [max_requests |-> 1, window_seconds |-> 1],   \* 5, 600
   ip_per_hour            |-> [max_requests |-> 3, window_seconds |-> 2],   \* 50, 3600
   ip_per_day             |-> [max_requests |-> 4, window_seconds |-> 4],   \* 200, 86400
   start_per_ip_per_hour  |-> [max_requests |-> 2, window_seconds |-> 2]]   \* 10, 3600

\* the session ids rate-limit checks are made for (str(request.session_id))
LimiterSessions == {"s1", "s2"}
\* the endpoint names the handlers pass
Endpoints == {"start_story", "continue"}

\* _cleanup_old_entries that drops nothing
CleanupOldEntries_KeepsAll(entries, window_seconds, t) == entries

\* _cleanup_old_entries: [e for e in entries if ts > now - window_seconds]
CleanupOldEntries(entries, window_seconds, t) ==
  SelectSeq(entries, LAMBDA ts : ts > t - window_seconds * TicksPerSecond)

\* min(ts for ts, _ in entries)
OldestTimestamp(entries) ==
  CHOOSE m \in {entries[i] : i \in 1..Len(entries)} :
    \A i \in 1..Len(entries) : m <= entries[i]

\* int(oldest_timestamp + window_seconds - now), in seconds: int() drops the fraction
RetryAfter(oldest_timestamp, window_seconds, t) ==
  (oldest_timestamp + window_seconds * TicksPerSecond - t) \div TicksPerSecond

\* return False, retry_after; oldest and window are the locals the value was computed from
Denied(entries, window_seconds, t) ==
  [is_allowed |-> FALSE,
   retry_after |-> RetryAfter(OldestTimestamp(entries), window_seconds, t),
   oldest_timestamp |-> OldestTimestamp(entries),
   window_seconds |-> window_seconds]
\* return True, None
Allowed == [is_allowed |-> TRUE, retry_after |-> None]

\* check_session_rate_limit that denies only above the hourly limit
CheckSessionRateLimit_OneMore(requests, session_id, endpoint, t) ==
  LET hourly_limit == limits.session_turns_per_hour
      entries == CleanupOldEntries(requests[session_id][endpoint],
                                   hourly_limit.window_seconds, t)
      daily_limit == limits.session_turns_per_day
      daily_entries == CleanupOldEntries(entries, daily_limit.window_seconds, t)
  IN  IF Len(entries) > hourly_limit.max_requests
      THEN [result |-> Denied(entries, hourly_limit.window_seconds, t),
            requests |-> requests]
      ELSE IF Len(daily_entries) >= daily_limit.max_requests
      THEN [result |-> Denied(daily_entries, daily_limit.window_seconds, t),
            requests |-> requests]
      ELSE [result |-> Allowed,
            requests |-> [requests EXCEPT ![session_id][endpoint] = Append(entries, t)]]

\* check_session_rate_limit on self.session_requests = requests at time t:
\* what it returns and the dictionary it leaves
CheckSessionRateLimit(requests, session_id, endpoint, t) ==
  LET hourly_limit == limits.session_turns_per_hour
      entries == CleanupOldEntries(requests[session_id][endpoint],
                                   hourly_limit.window_seconds, t)
      daily_limit == limits.session_turns_per_day
      daily_entries == CleanupOldEntries(entries, daily_limit.window_seconds, t)
  IN  IF Len(entries) >= hourly_limit.max_requests
      THEN [result |-> Denied(entries, hourly_limit.window_seconds, t),
            requests |-> requests]
      ELSE IF Len(daily_entries) >= daily_limit.max_requests
      THEN [result |-> Denied(daily_entries, daily_limit.window_seconds, t),
            requests |-> requests]
      ELSE [result |-> Allowed,
            requests |-> [requests EXCEPT ![session_id][endpoint] = Append(entries, t)]]

\* check_custom_input_rate_limit keeping one list for all sessions
CheckCustomInputRateLimit_OneList(requests, session_id, t) ==
  LET limit == limits.custom_input_per_10min
      entries == SelectSeq(requests["s1"],
                           LAMBDA ts : ts > t - limit.window_seconds * TicksPerSecond)
  IN  IF Len(entries) >= limit.max_requests
      THEN [result |-> Denied(entries, limit.window_seconds, t), requests |-> requests]
      ELSE [result |-> Allowed,
            requests |-> [requests EXCEPT !["s1"] = Append(entries, t)]]

\* check_custom_input_rate_limit on self.custom_input_requests = requests at time t
CheckCustomInputRateLimit(requests, session_id, t) ==
  LET limit == limits.custom_input_per_10min
      entries == SelectSeq(requests[session_id],
                           LAMBDA ts : ts > t - limit.window_seconds * TicksPerSecond)
  IN  IF Len(entries) >= limit.max_requests
      THEN [result |-> Denied(entries, limit.window_seconds, t), requests |-> requests]
      ELSE [result |-> Allowed,
            requests |-> [requests EXCEPT ![session_id] = Append(entries, t)]]

\* check_ip_rate_limit on self.ip_requests = requests at time t
CheckIpRateLimit(requests, ip_address, endpoint, t) ==
  LET hourly_limit == limits.ip_per_hour
      entries == CleanupOldEntries(requests[ip_address][endpoint],
                                   hourly_limit.window_seconds, t)
      daily_limit == limits.ip_per_day
      daily_entries == CleanupOldEntries(entries, daily_limit.window_seconds, t)
  IN  IF Len(entries) >= hourly_limit.max_requests
      THEN [result |-> Denied(entries, hourly_limit.window_seconds, t),
            requests |-> requests]
      ELSE IF Len(daily_entries) >= daily_limit.max_requests
      THEN [result |-> Denied(daily_entries, daily_limit.window_seconds, t),
            requests |-> requests]
      ELSE [result |-> Allowed,
            requests |-> [requests EXCEPT ![ip_address][endpoint] = Append(entries, t)]]

\* check_start_story_rate_limit that denies only above the limit
CheckStartStoryRateLimit_OneMore(requests, ip_address, t) ==
  LET limit == limits.start_per_ip_per_hour
      entries == CleanupOldEntries(requests[ip_address]["start_story"],
                                   limit.window_seconds, t)
  IN  IF Len(entries) > limit.max_requests
      THEN [result |-> Denied(entries, limit.window_seconds, t), requests |-> requests]
      ELSE [result |-> Allowed,
            requests |-> [requests EXCEPT ![ip_address]["start_story"] = Append(entries, t)]]

\* check_start_story_rate_limit on self.ip_requests = requests at time t
CheckStartStoryRateLimit(requests, ip_address, t) ==
  LET limit == limits.start_per_ip_per_hour
      entries == CleanupOldEntries(requests[ip_address]["start_story"],
                                   limit.window_seconds, t)
  IN  IF Len(entries) >= limit.max_requests
      THEN [result |-> Denied(entries, limit.window_seconds, t), requests |-> requests]
      ELSE [result |-> Allowed,
            requests |-> [requests EXCEPT ![ip_address]["start_story"] = Append(entries, t)]]

\* the HTTP requests of the model: the X-Forwarded-For and X-Real-IP headers and
\* request.client.host, None where the header or request.client is absent
HttpRequests ==
  [forwarded_for : {None, "", "10.0.0.1", "10.0.0.1, 10.0.0.2", " 10.0.0.1 ,10.0.0.2",
                    ", 10.0.0.2"},
   real_ip : {None, "", "10.0.0.3"},
   client_host : {None, "10.0.0.4"}]

\* s.split(",")[0]
RECURSIVE BeforeComma(_)
BeforeComma(s) ==
  IF s = <<>> \/ Head(s) = "," THEN <<>> ELSE <<Head(s)>> \o BeforeComma(Tail(s))

\* a resolution that looks at X-Real-IP before X-Forwarded-For
GetClientIp_RealIpFirst(http) ==
  IF Truthy(http.real_ip) THEN http.real_ip
  ELSE IF Truthy(http.forwarded_for)
  THEN Str(Strip(BeforeComma(Chars(http.forwarded_for))))
  ELSE IF http.client_host # None THEN http.client_host
  ELSE "unknown"
\* get_client_ip
GetClientIp(http) ==
  IF Truthy(http.forwarded_for)
  THEN Str(Strip(BeforeComma(Chars(http.forwarded_for))))
  ELSE IF Truthy(http.real_ip) THEN http.real_ip
  ELSE IF http.client_host # None THEN http.client_host
  ELSE "unknown"

\* the keys of self.ip_requests the model can see
ClientAddresses == {GetClientIp(http) : http \in HttpRequests}

(***************************************************************************)
(* State.                                                                  *)
(***************************************************************************)
VARIABLES
  sessions,            \* table sessions, committed rows, by id
  story_turns,         \* table story_turns, committed rows of each session, in insertion order
  use_moderation_api,  \* config.safety.use_moderation_api
  pc,                  \* where the request in flight is suspended
  req,                 \* the request in flight, or the last one
  attempt,             \* loop variable of _call_llm_with_retry
  llm_calls,           \* backend calls made for req
  sleeps,              \* asyncio.sleep waits made for req, in order
  last_attempt,        \* outcome of the latest backend call for req, and whether it validated
  llm_response,        \* value returned by _call_llm_with_retry for req
  response,            \* what the caller of req received
  now,                 \* time.time(), in ticks
  session_requests,    \* RateLimiter.session_requests[session_id][endpoint]
  ip_requests,         \* RateLimiter.ip_requests[ip][endpoint]
  custom_input_requests, \* RateLimiter.custom_input_requests[session_id]
  admitted,            \* per list, the timestamps of the checks that were allowed on it;
                       \* per client, those of the start requests the handler let through
  family,              \* the lists a run of LimiterSpec makes its checks on
  check,               \* the latest rate-limit check and what it returned
  call,                \* a call of filter_user_input or get_client_ip, and its result
  callers,             \* the continue requests in flight at once, by caller
  safety_filter,       \* which EnhancedSafetyFilter object the request in flight holds
  log_violations,      \* config.safety.log_violations, EnhancedSafetyFilter.log_violations
  violations_log,      \* EnhancedSafetyFilter.violations_log of that object
  summary,             \* what GET /api/v1/admin/safety/violations last returned
  recorded             \* how many violations the filters of this process have appended

engine_vars ==
  <<sessions, story_turns, use_moderation_api, pc, req, attempt, llm_calls,
    sleeps, last_attempt, llm_response, response>>
limiter_vars ==
  <<now, session_requests, ip_requests, custom_input_requests, admitted, family, check>>
log_vars ==
  <<safety_filter, log_violations, violations_log, summary, recorded>>
vars == <<engine_vars, limiter_vars, call, callers, log_vars>>

NoSession ==
  [exists |-> FALSE, turns |-> 0, is_active |-> FALSE, theme |-> None, age_range |-> None]
NoRequest ==
  [op |-> "none", session_id |-> None, theme |-> None, age_range |-> None,
   choice_id |-> None, choice_text |-> None, custom_input |-> None, player_action |-> None]
NoAttempt == [kind |-> "none", response |-> NoLLMResponse, is_valid |-> FALSE]
NoResponse ==
  [status |-> "none", scene_text |-> None, choices |-> NoneList,
   turns |-> 0, theme |-> None, age_range |-> None, max_turns |-> 0, is_finished |-> FALSE]
ErrorResponse(status) == [NoResponse EXCEPT !.status = status]

NoCheck == [method |-> "none"]
NoCall == [fn |-> "none"]
NoCallers == <<>>

\* the store is empty and no request has been made
EngineInit ==
  /\ sessions = [s \in SessionIds |-> NoSession]
  /\ story_turns = [s \in SessionIds |-> <<>>]
  /\ use_moderation_api \in BOOLEAN
  /\ pc = "idle"
  /\ req = NoRequest
  /\ attempt = 0
  /\ llm_calls = 0
  /\ sleeps = <<>>
  /\ last_attempt = NoAttempt
  /\ llm_response = NoLLMResponse
  /\ response = NoResponse

\* per client, the start requests that passed the rate-limit block of the handler
HandlerLogs == {<<"start_story", a>> : a \in ClientAddresses}

\* RateLimiter.__init__
LimiterInit ==
  /\ now = 0
  /\ session_requests = [s \in LimiterSessions |-> [e \in Endpoints |-> <<>>]]
  /\ ip_requests = [a \in ClientAddresses |-> [e \in Endpoints |-> <<>>]]
  /\ custom_input_requests = [s \in LimiterSessions |-> <<>>]
  /\ admitted = [l \in HandlerLogs |-> <<>>]
  /\ check = NoCheck

NoSummary == [request |-> "none", filter |-> 0]

\* no request has built a filter yet; log_violations has its default
NoFilter ==
  /\ safety_filter = 0
  /\ log_violations = TRUE
  /\ violations_log = <<>>
  /\ summary = NoSummary
  /\ recorded = 0

Init ==
  /\ EngineInit
  /\ LimiterInit
  /\ family = "none"
  /\ call = NoCall
  /\ callers = NoCallers
  /\ NoFilter

\* a request begins: nothing has been called, returned or answered for it yet
BeginRequest(r) ==
  /\ req' = r
  /\ attempt' = 0
  /\ llm_calls' = 0
  /\ sleeps' = <<>>
  /\ last_attempt' = NoAttempt
  /\ llm_response' = NoLLMResponse

\* uuid4(): an id no session has
FreshId(sid) == ~sessions[sid].exists

(***************************************************************************)
(* StoryEngine.                                                            *)
(***************************************************************************)
\* the turn limit, off by one
TurnLimitReached_OffByOne(turns, max_turns) == turns > max_turns
\* continue_story: the turn limit
TurnLimitReached(turns, max_turns) == turns >= max_turns

\* the checks of continue_story without the one of is_active
ContinueRefused_ActiveUnchecked(s) ==
  ~s.exists \/ TurnLimitReached(s.turns, MaxTurns)
\* continue_story: the checks that raise ValueError before anything else is done
ContinueRefused(s) ==
  ~s.exists \/ ~s.is_active \/ TurnLimitReached(s.turns, MaxTurns)

\* a loop that gives up one attempt early
HasNextAttempt_OneFewer(a) == a + 2 < max_retries
\* a loop that runs once more than max_retries
HasNextAttempt_OneMore(a) == a + 1 <= max_retries
\* for attempt in range(self.max_retries): is there another iteration
HasNextAttempt(a) == a + 1 < max_retries
\* attempt == self.max_retries - 1
IsLastAttempt(a) == a = max_retries - 1
\* a wait after every transport failure, the last one included
BackoffApplies_AfterLast(a) == a <= max_retries - 1
\* if attempt < self.max_retries - 1: the failure is followed by a wait
BackoffApplies(a) == a < max_retries - 1
\* wait_time = 2 ** attempt
BackoffWait(a) == 2 ^ a

\* _get_fallback_llm_response, tabulated once for the themes of the model
FallbackLLMResponses ==
  [theme \in Themes |->
     LET fb == GetFallbackResponse(theme)
     IN  [scene_text |-> fb.scene_text, choices |-> fb.choices]]
GetFallbackLLMResponse(theme) == FallbackLLMResponses[theme]

\* start_story up to the first backend call
StartStory(sid, player_theme, player_age) ==
  /\ pc = "idle"
  /\ FreshId(sid)
  /\ BeginRequest([NoRequest EXCEPT !.op = "start", !.session_id = sid,
                                    !.theme = player_theme, !.age_range = player_age])
  /\ pc' = "llm"
  /\ response' = NoResponse
  /\ UNCHANGED <<sessions, story_turns, use_moderation_api>>

\* start_story after _call_llm_with_retry has returned r
StartStoryFinish(r) ==
  IF r.choices = NoneList
  THEN \* enumerate(None) raises TypeError; the request's transaction is rolled back
       /\ response' = ErrorResponse("InternalError")
       /\ UNCHANGED <<sessions, story_turns>>
  ELSE /\ sessions' = [sessions EXCEPT ![req.session_id] =
                         [exists |-> TRUE, turns |-> 0, is_active |-> TRUE,
                          theme |-> req.theme, age_range |-> req.age_range]]
       /\ story_turns' = [story_turns EXCEPT ![req.session_id] =
                            Append(@, [turn_number |-> 0, scene_text |-> r.scene_text,
                                       player_choice |-> None, custom_input |-> None])]
       /\ response' = [status |-> "ok", scene_text |-> r.scene_text, choices |-> r.choices,
                       turns |-> 0, theme |-> req.theme, age_range |-> req.age_range,
                       max_turns |-> MetadataDefaultMaxTurns, is_finished |-> FALSE]

\* a choice that is always named by the placeholder
ChoiceAction_Placeholder(in) == "Choice " \o in.choice_id
\* continue_story, elif choice_id: the choice's text, or the placeholder built from its id
ChoiceAction(in) ==
  IF Truthy(in.choice_text) THEN in.choice_text ELSE "Choice " \o in.choice_id

\* continue_story up to the first backend call
ContinueStory(sid, in, verdict) ==
  LET s == IF sid \in DOMAIN sessions THEN sessions[sid] ELSE NoSession  \* db_session.get
      r == [NoRequest EXCEPT !.op = "continue", !.session_id = sid,
                             !.choice_id = in.choice_id, !.choice_text = in.choice_text,
                             !.custom_input = in.custom_input]
      filtered == FilterCall[in.custom_input, use_moderation_api, verdict]
  IN  /\ pc = "idle"
      /\ UNCHANGED <<sessions, story_turns, use_moderation_api>>
      /\ IF ContinueRefused(s)
         THEN /\ BeginRequest(r)
              /\ response' = ErrorResponse("InvalidState")
              /\ pc' = "idle"
         ELSE IF Truthy(in.custom_input)
         THEN IF ~filtered.is_safe
              THEN /\ BeginRequest(r)
                   /\ response' = ErrorResponse("ValidationError")
                   /\ pc' = "idle"
              ELSE /\ BeginRequest([r EXCEPT !.player_action = filtered.result])
                   /\ response' = NoResponse
                   /\ pc' = "llm"
         ELSE IF Truthy(in.choice_id)
         THEN /\ BeginRequest([r EXCEPT !.player_action = ChoiceAction(in)])
              /\ response' = NoResponse
              /\ pc' = "llm"
         ELSE /\ BeginRequest(r)
              /\ response' = ErrorResponse("ValidationError")
              /\ pc' = "idle"

\* continue_story after _call_llm_with_retry has returned r
ContinueStoryFinish(r) ==
  LET s == sessions[req.session_id]
      new_turn_number == s.turns + 1
  IN  IF r.choices = NoneList
      THEN \* enumerate(None) raises TypeError; the request's transaction is rolled back
           /\ response' = ErrorResponse("InternalError")
           /\ UNCHANGED <<sessions, story_turns>>
      ELSE /\ sessions' = [sessions EXCEPT ![req.session_id].turns = new_turn_number]
           /\ story_turns' = [story_turns EXCEPT ![req.session_id] =
                                Append(@, [turn_number |-> new_turn_number,
                                           scene_text |-> r.scene_text,
                                           player_choice |-> req.choice_id,
                                           custom_input |-> req.custom_input])]
           /\ response' = [status |-> "ok", scene_text |-> r.scene_text, choices |-> r.choices,
                           turns |-> new_turn_number,
                           theme |-> s.theme, age_range |-> s.age_range,
                           max_turns |-> MetadataDefaultMaxTurns, is_finished |-> FALSE]

\* _call_llm_with_retry returns r to start_story or continue_story, which runs to its end
ReturnLLMResponse(r) ==
  /\ llm_response' = r
  /\ pc' = "idle"
  /\ IF req.op = "start" THEN StartStoryFinish(r) ELSE ContinueStoryFinish(r)
  /\ UNCHANGED attempt

\* the theme _call_llm_with_retry is given
RequestTheme == IF req.op = "start" THEN req.theme ELSE sessions[req.session_id].theme

\* one iteration of the loop of _call_llm_with_retry
LLMAttempt(outcome, verdict) ==
  LET valid == /\ outcome.kind = "response"
               /\ ValidateCall[outcome.response, use_moderation_api, verdict].is_valid
      NextIteration == /\ attempt' = attempt + 1
                       /\ UNCHANGED <<sessions, story_turns, pc, llm_response, response>>
  IN  /\ pc = "llm"
      /\ llm_calls' = llm_calls + 1
      /\ last_attempt' = [kind |-> outcome.kind, response |-> outcome.response,
                          is_valid |-> valid]
      /\ UNCHANGED <<use_moderation_api, req>>
      /\ IF outcome.kind = "raise"
         THEN /\ sleeps' = IF BackoffApplies(attempt)
                           THEN Append(sleeps, BackoffWait(attempt)) ELSE sleeps
              /\ IF HasNextAttempt(attempt)
                 THEN NextIteration
                 ELSE ReturnLLMResponse(GetFallbackLLMResponse(RequestTheme))
         ELSE /\ UNCHANGED sleeps
              /\ IF valid
                 THEN ReturnLLMResponse(outcome.response)
                 ELSE IF IsLastAttempt(attempt) \/ ~HasNextAttempt(attempt)
                 THEN ReturnLLMResponse(GetFallbackLLMResponse(RequestTheme))
                 ELSE NextIteration

\* .order_by(StoryTurn.turn_number): the turns by ascending turn_number,
\* turns of equal number in the order of their insertion
RECURSIVE InsertByTurnNumber(_, _)
InsertByTurnNumber(t, sorted) ==
  IF sorted = <<>> THEN <<t>>
  ELSE IF t.turn_number < Head(sorted).turn_number THEN <<t>> \o sorted
  ELSE <<Head(sorted)>> \o InsertByTurnNumber(t, Tail(sorted))
RECURSIVE OrderByTurnNumber(_)
OrderByTurnNumber(turns) ==
  IF turns = <<>> THEN <<>>
  ELSE InsertByTurnNumber(turns[Len(turns)],
                          OrderByTurnNumber(SubSeq(turns, 1, Len(turns) - 1)))

\* a history that is read without looking whether the session exists
GetSessionHistory_Unchecked(sid) ==
  /\ pc = "idle"
  /\ BeginRequest([NoRequest EXCEPT !.op = "history", !.session_id = sid])
  /\ pc' = "idle"
  /\ UNCHANGED <<sessions, story_turns, use_moderation_api>>
  /\ response' = IF ~sessions[sid].exists THEN ErrorResponse("InternalError")
                 ELSE ErrorResponse("ok")
\* get_session_history: the session's attributes and its turns, or ValueError (404)
GetSessionHistory(sid) ==
  /\ pc = "idle"
  /\ BeginRequest([NoRequest EXCEPT !.op = "history", !.session_id = sid])
  /\ pc' = "idle"
  /\ UNCHANGED <<sessions, story_turns, use_moderation_api>>
  /\ IF ~sessions[sid].exists
     THEN response' = ErrorResponse("NotFound")
     ELSE response' =
            [age_range |-> sessions[sid].age_range, theme |-> sessions[sid].theme,
             total_turns |-> sessions[sid].turns, is_active |-> sessions[sid].is_active,
             history |-> OrderByTurnNumber(story_turns[sid])]
              @@ ErrorResponse("ok")

\* a reset that also puts the turn counter back to zero
ResetSession_ClearsTurns(sid) ==
  /\ pc = "idle"
  /\ BeginRequest([NoRequest EXCEPT !.op = "reset", !.session_id = sid])
  /\ pc' = "idle"
  /\ UNCHANGED <<story_turns, use_moderation_api>>
  /\ IF ~sessions[sid].exists
     THEN /\ response' = ErrorResponse("NotFound")
          /\ UNCHANGED sessions
     ELSE /\ sessions' = [sessions EXCEPT ![sid].is_active = FALSE, ![sid].turns = 0]
          /\ response' = ErrorResponse("ok")
\* reset_session
ResetSession(sid) ==
  /\ pc = "idle"
  /\ BeginRequest([NoRequest EXCEPT !.op = "reset", !.session_id = sid])
  /\ pc' = "idle"
  /\ UNCHANGED <<story_turns, use_moderation_api>>
  /\ IF ~sessions[sid].exists
     THEN /\ response' = ErrorResponse("NotFound")
          /\ UNCHANGED sessions
     ELSE /\ sessions' = [sessions EXCEPT ![sid].is_active = FALSE]
          /\ response' = ErrorResponse("ok")

(***************************************************************************)
(* The streaming endpoints of api/v1/story.py.                             *)
(***************************************************************************)
\* compute_max_turns(session_id): the session's maximum number of turns
ComputeMaxTurns(sid) == MaxTurns

\* start_story_stream.generate_stream up to the backend stream
StartStoryStream(sid, player_theme, player_age) ==
  /\ pc = "idle"
  /\ FreshId(sid)
  /\ BeginRequest([NoRequest EXCEPT !.op = "start_stream", !.session_id = sid,
                                    !.theme = player_theme, !.age_range = player_age])
  /\ pc' = "stream"
  /\ response' = NoResponse
  /\ UNCHANGED <<sessions, story_turns, use_moderation_api>>

\* start_story_stream.generate_stream from the backend stream on.  The session row
\* is flushed before the stream; when the stream or the parse fails nothing is
\* committed or rolled back by the generator, and get_db_session's commit after its
\* yield decides: teardown_commits says whether it runs after the body was generated.
StartStoryStreamFinish(outcome, teardown_commits) ==
  LET sid == req.session_id
      r == outcome.response
      row == [exists |-> TRUE, turns |-> 0, is_active |-> TRUE,
              theme |-> req.theme, age_range |-> req.age_range]
  IN  IF outcome.kind = "response"
      THEN /\ sessions' = [sessions EXCEPT ![sid] = row]
           /\ story_turns' = [story_turns EXCEPT ![sid] =
                                Append(@, [turn_number |-> 0, scene_text |-> r.scene_text,
                                           player_choice |-> None, custom_input |-> None])]
           /\ response' = [status |-> "ok", scene_text |-> r.scene_text,
                           choices |-> IF TruthyList(r.choices) THEN r.choices ELSE <<>>,
                           turns |-> 0, theme |-> req.theme, age_range |-> req.age_range,
                           max_turns |-> ComputeMaxTurns(sid), is_finished |-> FALSE]
      ELSE /\ sessions' = IF teardown_commits THEN [sessions EXCEPT ![sid] = row]
                          ELSE sessions
           /\ UNCHANGED story_turns
           /\ response' = ErrorResponse("StreamError")

\* continue_story_stream.generate_stream up to the backend stream
ContinueStoryStream(sid, in) ==
  LET s == sessions[sid]
      r == [NoRequest EXCEPT !.op = "continue_stream", !.session_id = sid,
                             !.choice_id = in.choice_id, !.choice_text = in.choice_text,
                             !.custom_input = in.custom_input]
  IN  /\ pc = "idle"
      /\ UNCHANGED <<sessions, story_turns, use_moderation_api>>
      /\ IF ~s.exists \/ ~s.is_active \/ TurnLimitReached(s.turns, ComputeMaxTurns(sid))
         THEN /\ BeginRequest(r)
              /\ response' = ErrorResponse("InvalidState")
              /\ pc' = "idle"
         ELSE /\ BeginRequest([r EXCEPT !.player_action =
                                 IF Truthy(in.choice_text) THEN in.choice_text
                                 ELSE IF Truthy(in.custom_input) THEN in.custom_input
                                 ELSE ""])
              /\ response' = NoResponse
              /\ pc' = "stream"

\* continue_story_stream.generate_stream from the backend stream on
ContinueStoryStreamFinish(outcome) ==
  LET sid == req.session_id
      s == sessions[sid]
      r == outcome.response
      max_turns == ComputeMaxTurns(sid)
      next_turn_number == s.turns + 1
      is_finished == next_turn_number >= max_turns
  IN  IF outcome.kind = "response"
      THEN /\ sessions' = [sessions EXCEPT ![sid].turns = next_turn_number,
                                           ![sid].is_active = ~is_finished]
           /\ story_turns' = [story_turns EXCEPT ![sid] =
                                Append(@, [turn_number |-> next_turn_number,
                                           scene_text |-> r.scene_text,
                                           player_choice |-> req.choice_id,
                                           custom_input |-> req.custom_input])]
           /\ response' = [status |-> "ok", scene_text |-> r.scene_text,
                           choices |-> IF next_turn_number < max_turns /\ TruthyList(r.choices)
                                       THEN r.choices ELSE <<>>,
                           turns |-> next_turn_number,
                           theme |-> s.theme, age_range |-> s.age_range,
                           max_turns |-> max_turns, is_finished |-> is_finished]
      ELSE /\ UNCHANGED <<sessions, story_turns>>
           /\ response' = ErrorResponse("StreamError")

\* the backend stream of a streaming endpoint ends, and the generator with it
StreamAttempt(outcome, teardown_commits) ==
  /\ pc = "stream"
  /\ llm_calls' = llm_calls + 1
  /\ last_attempt' = [kind |-> outcome.kind, response |-> outcome.response, is_valid |-> FALSE]
  /\ pc' = "idle"
  /\ IF req.op = "start_stream"
     THEN StartStoryStreamFinish(outcome, teardown_commits)
     ELSE ContinueStoryStreamFinish(outcome)
  /\ UNCHANGED <<use_moderation_api, req, attempt, sleeps, llm_response>>

(***************************************************************************)
(* The system: one request at a time.                                      *)
(***************************************************************************)
Next ==
  \/ /\ \E sid \in SessionIds, th \in Themes, age \in AgeRanges : StartStory(sid, th, age)
     /\ UNCHANGED <<limiter_vars, call, callers, log_vars>>
  \/ /\ \E sid \in SessionIds, in \in ContinueInputs, v \in VerdictsFor(use_moderation_api) :
          ContinueStory(sid, in, v)
     /\ UNCHANGED <<limiter_vars, call, callers, log_vars>>
  \/ /\ \E o \in BackendOutcomes, v \in VerdictsFor(use_moderation_api) : LLMAttempt(o, v)
     /\ UNCHANGED <<limiter_vars, call, callers, log_vars>>
  \/ /\ \E sid \in SessionIds : ResetSession(sid)
     /\ UNCHANGED <<limiter_vars, call, callers, log_vars>>
  \/ /\ \E sid \in SessionIds : GetSessionHistory(sid)
     /\ UNCHANGED <<limiter_vars, call, callers, log_vars>>
  \/ /\ \E sid \in SessionIds, th \in Themes, age \in AgeRanges : StartStoryStream(sid, th, age)
     /\ UNCHANGED <<limiter_vars, call, callers, log_vars>>
  \/ /\ \E sid \in SessionIds, in \in ContinueInputs : ContinueStoryStream(sid, in)
     /\ UNCHANGED <<limiter_vars, call, callers, log_vars>>
  \/ /\ \E o \in StreamOutcomes, tc \in BOOLEAN : StreamAttempt(o, tc)
     /\ UNCHANGED <<limiter_vars, call, callers, log_vars>>

Spec == Init /\ [][Next]_vars

\* every backend call that is awaited returns or raises in the end
FairSpec ==
  /\ Spec
  /\ WF_vars(/\ \E o \in BackendOutcomes, v \in VerdictsFor(use_moderation_api) :
                   LLMAttempt(o, v)
             /\ UNCHANGED <<limiter_vars, call, callers, log_vars>>)
  /\ WF_vars(/\ \E o \in StreamOutcomes, tc \in BOOLEAN : StreamAttempt(o, tc)
             /\ UNCHANGED <<limiter_vars, call, callers, log_vars>>)

(***************************************************************************)
(* Properties.                                                             *)
(***************************************************************************)
\* the requests that continue a session
ContinueOps == {"continue", "continue_stream"}
\* the requests that produce a scene
SceneOps == {"start", "continue", "start_stream", "continue_stream"}
\* the responses validate_llm_output accepts whatever the moderation endpoint says
AcceptedResponses == {r \in LLMResponses : ValidateCall[r, FALSE, "clean"].is_valid}
\* the responses _get_fallback_llm_response can give
FallbackResponses == {GetFallbackLLMResponse(theme) : theme \in Themes}
\* the request in flight has just been answered with a scene
Answered(ops) == pc = "idle" /\ req.op \in ops /\ response.status = "ok"

\* C1: every scene that is persisted, and every scene with its choices that
\* start or continue returns (streaming included), is backend output that
\* validate_llm_output accepts, or the fallback for the theme.
C1_OnlyValidatedOrFallback ==
  /\ \A sid \in SessionIds : \A i \in 1..Len(story_turns[sid]) :
       story_turns[sid][i].scene_text \in
         {r.scene_text : r \in AcceptedResponses \cup FallbackResponses}
  /\ Answered(SceneOps) =>
       \E r \in AcceptedResponses \cup FallbackResponses :
         /\ response.scene_text = r.scene_text
         /\ response.choices \in {r.choices, <<>>}

\* C2: start and continue never fail because of the generation layer: once the
\* backend has been called, whatever it did, the request ends with a scene.
C2_GenerationNeverFails ==
  (pc = "idle" /\ req.op \in {"start", "continue"} /\ llm_calls > 0)
    => response.status = "ok"

\* C3: a continue on a session that is missing, inactive or at the turn limit
\* fails with InvalidState at once: the backend is not called, no turn is
\* persisted and the session is unchanged.
C3_RefusedContinue ==
  [][(/\ pc = "idle"
      /\ req'.op = "continue"
      /\ LET s == sessions[req'.session_id]
         IN  ~s.exists \/ ~s.is_active \/ s.turns >= MaxTurns)
     => /\ response'.status = "InvalidState"
        /\ pc' = "idle"
        /\ llm_calls' = 0
        /\ sessions' = sessions
        /\ story_turns' = story_turns]_vars
\* a continue was refused on an active session that had reached the turn limit
C3_Witness ==
  /\ pc = "idle" /\ req.op = "continue" /\ response.status = "InvalidState"
  /\ llm_calls = 0
  /\ sessions[req.session_id].is_active
  /\ sessions[req.session_id].turns = MaxTurns

\* C4: wherever a session is continued with free text, the text has passed
\* filter_user_input before the backend is called.
C4_FreeTextFilteredFirst ==
  (pc \in {"llm", "stream"} /\ req.op \in ContinueOps /\ Truthy(req.custom_input))
    => FilterCall[req.custom_input, FALSE, "clean"].is_safe

\* C5: the turn counter of a session never decreases and never exceeds the
\* maximum number of turns.
C5_TurnsMonotonicAndBounded ==
  [][\A sid \in SessionIds :
       /\ sessions[sid].turns <= sessions'[sid].turns
       /\ sessions'[sid].turns <= MaxTurns]_vars
\* a session has been continued up to the turn limit
C5_Witness ==
  \E sid \in SessionIds :
    /\ sessions[sid].exists
    /\ sessions[sid].turns = MaxTurns
    /\ Len(story_turns[sid]) = MaxTurns + 1

\* C6: an inactive session stays inactive and unchanged, and a continue on it is
\* refused without a backend call.
C6_InactiveIsTerminal ==
  [][\A sid \in SessionIds :
       (sessions[sid].exists /\ ~sessions[sid].is_active)
         => /\ sessions'[sid] = sessions[sid]
            /\ story_turns'[sid] = story_turns[sid]
            /\ (pc = "idle" /\ req'.op \in ContinueOps /\ req'.session_id = sid)
                 => (response'.status = "InvalidState" /\ pc' = "idle" /\ llm_calls' = 0)]_vars
\* a continue was refused on a session that was reset before its last turn
C6_Witness ==
  /\ pc = "idle" /\ req.op \in ContinueOps /\ response.status = "InvalidState"
  /\ sessions[req.session_id].exists
  /\ ~sessions[req.session_id].is_active
  /\ sessions[req.session_id].turns < MaxTurns
  /\ Len(story_turns[req.session_id]) > 1

\* C7: the turns persisted for a session are numbered 0..k without gap or
\* repeat, and every persisted session has its turn 0.
C7_TurnsContiguousFromZero ==
  \A sid \in SessionIds :
    sessions[sid].exists
      => /\ Len(story_turns[sid]) >= 1
         /\ \A i \in 1..Len(story_turns[sid]) : story_turns[sid][i].turn_number = i - 1

\* C8: a continue that succeeds adds one to the turn counter, leaves the session
\* inactive exactly when the new turn is the last one, and reports is_finished
\* exactly then.
C8_ContinueAdvancesAndFinishes ==
  [][(pc # "idle" /\ pc' = "idle" /\ req.op \in ContinueOps /\ response'.status = "ok")
     => LET old == sessions[req.session_id]
            new == sessions'[req.session_id]
        IN  /\ new.turns = old.turns + 1
            /\ new.is_active <=> new.turns # MaxTurns
            /\ response'.is_finished <=> new.turns = MaxTurns]_vars

\* C9: a continue whose new turn is the last one returns no choices.
C9_FinalTurnHasNoChoices ==
  (Answered(ContinueOps) /\ response.turns = MaxTurns) => response.choices = <<>>

\* C10: _call_llm_with_retry calls the backend at most max_retries times, makes
\* no call after the first attempt that validates, and returns that attempt's
\* output unchanged.
C10_RetryBoundedAndStopsAtValid ==
  [][/\ llm_calls' <= max_retries
     /\ (pc = "llm" /\ llm_calls' = llm_calls + 1 /\ last_attempt'.is_valid)
          => /\ pc' = "idle"
             /\ llm_response' = last_attempt'.response]_vars
\* the third call of a request was the first to validate, and its output was returned
C10_Witness ==
  /\ pc = "idle" /\ req.op \in {"start", "continue"}
  /\ llm_calls = max_retries
  /\ last_attempt.is_valid
  /\ llm_response = last_attempt.response
  /\ response.status = "ok"

\* the theme of the session the request in flight is about
SessionTheme == IF req.op = "start" THEN req.theme ELSE sessions[req.session_id].theme

C12_WaitsAreOneTwoFour ==
  \A k \in 1..Len(sleeps) : sleeps[k] = 2 ^ (k - 1)

\* C13: _call_llm_with_retry never waits after an attempt whose output was
\* rejected by validate_llm_output, and never waits after its last attempt,
\* whether that attempt raised or was rejected.
C13_NoWaitAfterRejectionOrLastAttempt ==
  [][(/\ pc = "llm"
      /\ llm_calls' = llm_calls + 1
      /\ last_attempt'.kind = "response" \/ llm_calls' = max_retries)
     => sleeps' = sleeps]_vars
\* the last attempt raised after two that raised: two waits, none after the last
C13_Witness ==
  /\ pc = "idle" /\ req.op \in {"start", "continue"}
  /\ llm_calls = max_retries
  /\ last_attempt.kind = "raise"
  /\ sleeps = <<1, 2>>

\* C14: every start and every continue completes in the end, with an answer or
\* an error, when every backend call returns or raises in the end: while a
\* request is in flight every step either ends it or uses up one of the at
\* most max_retries attempts, whose waits are finite.
C14_ForwardProgress ==
  /\ (pc # "idle") ~> (pc = "idle")
  /\ [][pc # "idle"
          => \/ pc' = "idle"
             \/ /\ llm_calls' = llm_calls + 1
                /\ llm_calls' < max_retries
                /\ Len(sleeps') <= llm_calls']_vars
\* a request ended after all its attempts had raised
C14_Witness ==
  /\ pc = "idle" /\ req.op \in {"start", "continue"}
  /\ response.status = "ok"
  /\ llm_calls = max_retries
  /\ last_attempt.kind = "raise"
  /\ Len(sleeps) = max_retries - 1

\* validate_llm_output applied to the fallback of each theme, for each age range
FallbackValidateCall ==
  [theme \in Themes, age_range \in {None} \cup AgeRangesWithList |->
     LET fb == GetFallbackResponse(theme)
     IN  ValidateLLMOutput(fb.scene_text, fb.choices, age_range, FALSE, "clean")]

\* C15: the fallback is always safe: the scene and choices that are substituted
\* once the attempts are exhausted are accepted by validate_llm_output, for
\* every theme and every age range.
C15_FallbackIsSafe ==
  (/\ pc = "idle" /\ req.op \in {"start", "continue"} /\ response.status = "ok"
   /\ llm_calls = max_retries /\ ~last_attempt.is_valid)
    => \A age_range \in {None} \cup AgeRangesWithList :
         FallbackValidateCall[SessionTheme, age_range].is_valid

\* C16: whatever the theme, the fallback has a non-empty scene and exactly three
\* non-empty choices, and it is a function of the theme alone: what is
\* substituted when the attempts are exhausted is the same for the same theme
\* whatever the state of the store.
C16_FallbackShape ==
  (/\ pc = "idle" /\ req.op \in {"start", "continue"}
   /\ llm_calls = max_retries /\ ~last_attempt.is_valid)
    => /\ Truthy(llm_response.scene_text)
       /\ Len(llm_response.choices) = 3
       /\ \A k \in 1..Len(llm_response.choices) : Truthy(llm_response.choices[k])
       /\ \E theme \in Themes :
            /\ theme = SessionTheme
            /\ llm_response.scene_text = GetFallbackResponse(theme).scene_text
\* the fallback was substituted on a later turn of a story with an unlisted theme
C16_Witness ==
  /\ pc = "idle" /\ req.op = "continue"
  /\ llm_calls = max_retries /\ ~last_attempt.is_valid
  /\ sessions[req.session_id].theme = "dark_forest"
  /\ sessions[req.session_id].turns >= 1
  /\ Len(response.choices) = 3

\* C17: the update of the session and the insert of the turn are committed as
\* one: in every committed state, also after a start or a continue that failed,
\* the turn counter of a session is the highest turn_number persisted for it.
C17_CounterIsHighestPersistedTurn ==
  \A sid \in SessionIds :
    sessions[sid].exists
      => /\ \E k \in 1..Len(story_turns[sid]) :
              story_turns[sid][k].turn_number = sessions[sid].turns
         /\ \A k \in 1..Len(story_turns[sid]) :
              story_turns[sid][k].turn_number <= sessions[sid].turns

\* C18: every persisted turn satisfies the action invariant: turn 0 has neither
\* a chosen action nor free text, and every later turn has exactly one of the
\* two, whatever the continue request carried.
C18_ExactlyOneActionPerTurn ==
  \A sid \in SessionIds : \A k \in 1..Len(story_turns[sid]) :
    LET t == story_turns[sid][k]
    IN  IF t.turn_number = 0
        THEN t.player_choice = None /\ t.custom_input = None
        ELSE (t.player_choice # None) # (t.custom_input # None)

\* C19: reset is idempotent: on an existing session it succeeds and leaves the
\* session inactive, a reset of an inactive session leaves the row as it was,
\* and no reset changes the turn counter or the persisted turns.
C19_ResetIdempotent ==
  [][(pc = "idle" /\ req'.op = "reset" /\ sessions[req'.session_id].exists)
     => LET sid == req'.session_id
        IN  /\ response'.status = "ok"
            /\ pc' = "idle"
            /\ sessions' = [sessions EXCEPT ![sid].is_active = FALSE]
            /\ ~sessions[sid].is_active => sessions' = sessions
            /\ story_turns' = story_turns]_vars
\* a session with turns beyond the first was reset and is inactive with its turns kept
C19_Witness ==
  /\ pc = "idle" /\ req.op = "reset" /\ response.status = "ok"
  /\ sessions[req.session_id].exists
  /\ ~sessions[req.session_id].is_active
  /\ sessions[req.session_id].turns >= 1
  /\ Len(story_turns[req.session_id]) = sessions[req.session_id].turns + 1

\* C20: get_session_history and reset_session on a session id that does not
\* exist fail with NotFound and change nothing: no session and no turn is
\* created or modified.
C20_UnknownSessionNotFound ==
  [][(pc = "idle" /\ req'.op \in {"history", "reset"} /\ ~sessions[req'.session_id].exists)
     => /\ response'.status = "NotFound"
        /\ pc' = "idle"
        /\ sessions' = sessions
        /\ story_turns' = story_turns]_vars
\* the history of a session that does not exist was asked for and refused
C20_Witness ==
  /\ pc = "idle" /\ req.op = "history" /\ response.status = "NotFound"
  /\ ~sessions[req.session_id].exists
  /\ story_turns[req.session_id] = <<>>

\* C21: a start that succeeds creates exactly one new session, with turn
\* counter 0 and active, and persists exactly one turn, numbered 0 and holding
\* the returned scene; the metadata it returns says turn 0, the theme and age
\* range asked for, the maximum number of turns the engine is configured with,
\* and not finished; no other session is changed.
C21_StartCreatesSessionAndTurnZero ==
  [][(pc # "idle" /\ pc' = "idle" /\ req.op \in {"start", "start_stream"}
      /\ response'.status = "ok")
     => LET sid == req.session_id
        IN  /\ ~sessions[sid].exists
            /\ sessions'[sid] = [exists |-> TRUE, turns |-> 0, is_active |-> TRUE,
                                 theme |-> req.theme, age_range |-> req.age_range]
            /\ \A other \in SessionIds \ {sid} :
                 sessions'[other] = sessions[other] /\ story_turns'[other] = story_turns[other]
            /\ Len(story_turns'[sid]) = 1
            /\ story_turns'[sid][1].turn_number = 0
            /\ story_turns'[sid][1].scene_text = response'.scene_text
            /\ response'.turns = 0
            /\ response'.theme = req.theme
            /\ response'.age_range = req.age_range
            /\ response'.max_turns = MaxTurns
            /\ response'.is_finished = FALSE]_vars

(***************************************************************************)
(* The pure functions, called on their own: EnhancedSafetyFilter.          *)
(* filter_user_input and RateLimiter.get_client_ip.                        *)
(***************************************************************************)
\* the texts filter_user_input is called with
FilterTexts ==
  {"", "   ", "go on", "kill it", "a complex door", "visit http://x.com", "kill http://x.com"}
    \cup {p[1] : p \in {q \in TextTable : Len(q[2]) >= max_input_length}}
\* the age_range argument: Optional[str]
FilterAgeRanges == {None} \cup AgeRangesWithList

\* scenes for _analyze_sentiment: without lexicon words, with scores at, around
\* and below -0.3, and the scene of test_validate_llm_output_blocks_negative_sentiment
SentimentScenes ==
  {"a red fox", "a sad fox", "a sad and angry fox", "a worried and lonely fox",
   "a lonely and worried fox", "a sad happy fox", "a scared and sad fox",
   "a sad, worried and lonely fox", "an upset, lonely and sad fox",
   "You are lonely and sad, crying about your failure. Feeling lonely again."}
\* scenes and choices for the banned-word scan of validate_llm_output: a banned
\* word in the middle, at the start and at the end of the text, with punctuation
\* attached, and as the first or the last letters of a longer word; with the
\* texts of test_validate_llm_output_blocks_banned_words_in_scene and _in_choices
BannedScanScenes ==
  {"a ghost and a fox", "ghost and a fox", "a fox and a ghost", "a ghost, a fox",
   "a fox and a ghost.", "warm milk for a fox", "a fox is unafraid", "a warm fox",
   "You see a scary monster in the dark forest"}
BannedScanChoices == {"pet the ghost!", "warm up", "Fight the dragon"}
\* the responses validate_llm_output is called with
ValidateResponses ==
  LLMResponses
    \cup {[scene_text |-> t, choices |-> GoodChoices] : t \in SentimentScenes \cup BannedScanScenes}
    \cup {[scene_text |-> "a happy fox", choices |-> <<"go on", c, "look">>] :
            c \in BannedScanChoices}

FunctionCalls ==
  [fn : {"filter_user_input"}, text : FilterTexts, age_range : FilterAgeRanges,
   verdict : ModerationVerdicts, returned : {FALSE}, result : {None}]
    \cup [fn : {"get_client_ip"}, http : HttpRequests, returned : {FALSE}, result : {None}]
    \cup [fn : {"validate_llm_output"}, llm_response : ValidateResponses,
          age_range : FilterAgeRanges, verdict : ModerationVerdicts,
          returned : {FALSE}, result : {None}]

FunctionInit ==
  /\ EngineInit
  /\ LimiterInit
  /\ family = "none"
  /\ call \in FunctionCalls
  /\ callers = NoCallers
  /\ NoFilter
  /\ call.fn \in {"filter_user_input", "validate_llm_output"}
       => call.verdict \in VerdictsFor(use_moderation_api)

\* await safety_filter.filter_user_input(text, age_range)
FilterUserInputCall ==
  /\ call.fn = "filter_user_input"
  /\ ~call.returned
  /\ call' = [call EXCEPT !.returned = TRUE,
                          !.result = FilterUserInput(call.text, call.age_range,
                                                     use_moderation_api, call.verdict)]
  /\ UNCHANGED <<engine_vars, limiter_vars, callers, log_vars>>

\* rate_limiter.get_client_ip(request)
GetClientIpCall ==
  /\ call.fn = "get_client_ip"
  /\ ~call.returned
  /\ call' = [call EXCEPT !.returned = TRUE, !.result = GetClientIp(call.http)]
  /\ UNCHANGED <<engine_vars, limiter_vars, callers, log_vars>>

\* await safety_filter.validate_llm_output(scene_text, choices, age_range)
ValidateLLMOutputCall ==
  /\ call.fn = "validate_llm_output"
  /\ ~call.returned
  /\ call' = [call EXCEPT !.returned = TRUE,
                          !.result = ValidateLLMOutput(call.llm_response.scene_text,
                                                       call.llm_response.choices,
                                                       call.age_range,
                                                       use_moderation_api, call.verdict)]
  /\ UNCHANGED <<engine_vars, limiter_vars, callers, log_vars>>

FunctionNext ==
  \/ FilterUserInputCall
  \/ GetClientIpCall
  \/ ValidateLLMOutputCall

FunctionSpec == FunctionInit /\ [][FunctionNext]_vars

\* the first entry of a comma-separated header value, without surrounding blanks
FirstEntry(value) == Str(Strip(BeforeComma(Chars(value))))

\* C29 as stated: the forwarded-for header's first entry whenever that header
\* is present, else the real-client header whenever it is present, else the
\* transport peer, else "unknown".
C29_PrecedenceByPresence ==
  (call.fn = "get_client_ip" /\ call.returned)
    => LET http == call.http
       IN  call.result =
             IF http.forwarded_for # None THEN FirstEntry(http.forwarded_for)
             ELSE IF http.real_ip # None THEN http.real_ip
             ELSE IF http.client_host # None THEN http.client_host
             ELSE "unknown"

\* C29: for every combination of sources, the resolved client address is the
\* first entry of the forwarded-for header if that header is present with a
\* non-empty value, else the real-client header if it is present with a
\* non-empty value, else the transport peer address, else "unknown".
C29_PrecedenceByNonEmptyValue ==
  (call.fn = "get_client_ip" /\ call.returned)
    => LET http == call.http
           has_forwarded == http.forwarded_for \notin {None, ""}
           has_real_ip == http.real_ip \notin {None, ""}
       IN  /\ has_forwarded => call.result = FirstEntry(http.forwarded_for)
           /\ (~has_forwarded /\ has_real_ip) => call.result = http.real_ip
           /\ (~has_forwarded /\ ~has_real_ip /\ http.client_host # None)
                => call.result = http.client_host
           /\ (~has_forwarded /\ ~has_real_ip /\ http.client_host = None)
                => call.result = "unknown"
           /\ http.forwarded_for \in {"10.0.0.1", "10.0.0.1, 10.0.0.2", " 10.0.0.1 ,10.0.0.2"}
                => call.result = "10.0.0.1"

\* an empty forwarded-for header is passed over for the real-client header
C29_Witness ==
  /\ call.fn = "get_client_ip" /\ call.returned
  /\ call.http.forwarded_for = "" /\ call.http.real_ip = "10.0.0.3"
  /\ call.result = "10.0.0.3"

\* the checks of filter_user_input that a text fails, by their place in the order
IsBlank(text) == text = "" \/ Strip(Chars(text)) = <<>>
IsTooLong(text) == Len(Chars(text)) > max_input_length
FailsPatternSweep(text) == MatchesInappropriatePattern(Strip(Chars(text)))
FailsBannedWords(text) == HasListedWord(Strip(Chars(text)), banned_words)
FailsAgeWords(text, age_range) ==
  /\ age_range \in AgeRangesWithList
  /\ HasListedWord(Strip(Chars(text)), age_inappropriate_words(age_range))
FailedChecks(text, age_range) ==
  {n \in 1..5 : \/ n = 1 /\ IsBlank(text)
                \/ n = 2 /\ IsTooLong(text)
                \/ n = 3 /\ FailsPatternSweep(text)
                \/ n = 4 /\ FailsBannedWords(text)
                \/ n = 5 /\ FailsAgeWords(text, age_range)}
FirstFailedCheck(text, age_range) ==
  LET failed == FailedChecks(text, age_range)
  IN  IF failed = {} THEN 6 ELSE CHOOSE n \in failed : \A m \in failed : n <= m
RejectionOf ==
  <<"Input cannot be empty", "Input too long", "Please don't include personal information",
    "Let's use kinder words in our story", "Let's use simpler, more fun ideas">>

\* the order of the checks, and the three examples except the one on length
FilterOrder ==
  (call.fn = "filter_user_input" /\ call.returned)
    => LET first == FirstFailedCheck(call.text, call.age_range)
       IN  /\ first <= 5 => (~call.result.is_safe /\ call.result.result = RejectionOf[first])
           /\ call.result.moderation_called = (first = 6 /\ use_moderation_api)
           /\ first = 6 => call.result.is_safe = (call.verdict # "flagged" \/ ~use_moderation_api)
           /\ call.text = "" => call.result.result = "Input cannot be empty"
           /\ call.text = "visit http://x.com"
                => (call.result.result = "Please don't include personal information"
                    /\ call.result.violation = "inappropriate_pattern")

\* C30 as stated: the checks run in the order empty, length cap, pattern
\* sweep, banned words, age words, oracle, the first failing one decides, and
\* a 300-character input is rejected as too long whatever else it contains.
C30_EveryLongInputTooLong ==
  /\ FilterOrder
  /\ (call.fn = "filter_user_input" /\ call.returned /\ Len(Chars(call.text)) = 300)
       => call.result.result = "Input too long"

\* C30: the checks run in the order empty, length cap, pattern sweep, banned
\* words, age words, oracle, and the first failing one alone decides the
\* rejection: "" is rejected as empty, a 300-character input that is not
\* blank is rejected as too long whatever else it contains, an input with a
\* URL is rejected as a pattern violation for every age bracket and for none,
\* and the oracle is consulted only when the five checks before it pass.
C30_FirstFailingCheckDecides ==
  /\ FilterOrder
  /\ (call.fn = "filter_user_input" /\ call.returned /\ Len(Chars(call.text)) = 300
      /\ ~IsBlank(call.text))
       => call.result.result = "Input too long"

\* a 300-character input holding a URL and a banned word is rejected for its length
C30_Witness ==
  /\ call.fn = "filter_user_input" /\ call.returned
  /\ Len(Chars(call.text)) = 300
  /\ FailsPatternSweep(call.text) /\ FailsBannedWords(call.text)
  /\ call.result.result = "Input too long"
  /\ ~call.result.moderation_called

(***************************************************************************)
(* RateLimiter: its check methods called one after another while the clock *)
(* advances.  A check method reads and writes one list of one dictionary,  *)
(* and a run makes its checks on the lists of one family:                  *)
(*   "session"       session_requests[s]["continue"]                       *)
(*   "custom_input"  custom_input_requests[s]                              *)
(*   "ip"            ip_requests[a]["continue"]                            *)
(*   "start_story"   ip_requests[a]["start_story"], which                  *)
(*                   check_start_story_rate_limit and check_ip_rate_limit  *)
(*                   both use for a start request                          *)
(*   "start_policy"  the same list for one client, the checks each of the  *)
(*                   two methods allowed being logged apart as well        *)
(***************************************************************************)
MaxClock == 4
LimiterFamilies == {"session", "custom_input", "ip", "start_story", "start_policy"}
\* the client of the family "start_policy"
PolicyAddress == "10.0.0.1"
\* the client addresses the checks of LimiterSpec are made for
LimiterAddresses == {"10.0.0.1", "10.0.0.4"}

\* the lists of the limiter, by dictionary and key
Lists ==
  {<<"session_requests", s, e>> : s \in LimiterSessions, e \in Endpoints}
    \cup {<<"custom_input_requests", s>> : s \in LimiterSessions}
    \cup {<<"ip_requests", a, e>> : a \in ClientAddresses, e \in Endpoints}
\* the entries now stored in a list
Stored(l) ==
  IF l[1] = "session_requests" THEN session_requests[l[2]][l[3]]
  ELSE IF l[1] = "custom_input_requests" THEN custom_input_requests[l[2]]
  ELSE ip_requests[l[2]][l[3]]
\* ip_requests[a]["start_story"] is written by two methods: in the family
\* "start_policy" the checks each of them allowed are logged apart as well
MethodLogs ==
  {<<m, a, "start_story">> :
     m \in {"check_start_story_rate_limit", "check_ip_rate_limit"}, a \in ClientAddresses}
\* the list a check reads and writes
ListOf(c) ==
  IF c.method = "check_session_rate_limit" THEN <<"session_requests", c.key, c.endpoint>>
  ELSE IF c.method = "check_custom_input_rate_limit" THEN <<"custom_input_requests", c.key>>
  ELSE <<"ip_requests", c.key, c.endpoint>>

LimiterSpecInit ==
  /\ EngineInit
  /\ ~use_moderation_api
  /\ now = 0
  /\ session_requests = [s \in LimiterSessions |-> [e \in Endpoints |-> <<>>]]
  /\ ip_requests = [a \in ClientAddresses |-> [e \in Endpoints |-> <<>>]]
  /\ custom_input_requests = [s \in LimiterSessions |-> <<>>]
  /\ admitted = [l \in Lists \cup MethodLogs |-> <<>>]
  /\ check = NoCheck
  /\ family \in LimiterFamilies
  /\ call = NoCall
  /\ callers = NoCallers
  /\ NoFilter

\* time passes
Tick ==
  /\ now < MaxClock
  /\ now' = now + 1
  /\ UNCHANGED <<engine_vars, session_requests, ip_requests, custom_input_requests,
                 admitted, family, check, call, callers, log_vars>>

\* a rate-limit check as its caller sees it: the call, the list found, the result
CheckRecord(method, key, endpoint, entries, result) ==
  [method |-> method, key |-> key, endpoint |-> endpoint, t |-> now,
   entries |-> entries, is_allowed |-> result.is_allowed,
   retry_after |-> result.retry_after]

\* what a check leaves in check and admitted: the call, the list it found,
\* what it returned; an allowed check is logged for its list
Record(method, key, endpoint, entries, result) ==
  LET c == CheckRecord(method, key, endpoint, entries, result)
  IN  /\ check' = c
      /\ admitted' = IF ~result.is_allowed THEN admitted
                     ELSE IF family = "start_policy"
                       THEN [admitted EXCEPT ![ListOf(c)] = Append(@, now),
                                             ![<<method, key, endpoint>>] = Append(@, now)]
                     ELSE [admitted EXCEPT ![ListOf(c)] = Append(@, now)]

\* rate_limiter.check_session_rate_limit(session_id, "continue")
CheckSession(session_id) ==
  LET r == CheckSessionRateLimit(session_requests, session_id, "continue", now)
  IN  /\ family = "session"
      /\ session_requests' = r.requests
      /\ Record("check_session_rate_limit", session_id, "continue",
                session_requests[session_id]["continue"], r.result)
      /\ UNCHANGED <<engine_vars, now, ip_requests, custom_input_requests, family, call, callers, log_vars>>

\* rate_limiter.check_custom_input_rate_limit(session_id)
CheckCustomInput(session_id) ==
  LET r == CheckCustomInputRateLimit(custom_input_requests, session_id, now)
  IN  /\ family = "custom_input"
      /\ custom_input_requests' = r.requests
      /\ Record("check_custom_input_rate_limit", session_id, None,
                custom_input_requests[session_id], r.result)
      /\ UNCHANGED <<engine_vars, now, session_requests, ip_requests, family, call, callers, log_vars>>

\* rate_limiter.check_ip_rate_limit(ip_address, endpoint)
CheckIp(ip_address, endpoint) ==
  LET r == CheckIpRateLimit(ip_requests, ip_address, endpoint, now)
  IN  /\ \/ family = "ip" /\ endpoint = "continue"
         \/ family = "start_story" /\ endpoint = "start_story"
         \/ family = "start_policy" /\ endpoint = "start_story" /\ ip_address = PolicyAddress
      /\ ip_requests' = r.requests
      /\ Record("check_ip_rate_limit", ip_address, endpoint,
                ip_requests[ip_address][endpoint], r.result)
      /\ UNCHANGED <<engine_vars, now, session_requests, custom_input_requests, family, call, callers, log_vars>>

\* rate_limiter.check_start_story_rate_limit(ip_address)
CheckStartStory(ip_address) ==
  LET r == CheckStartStoryRateLimit(ip_requests, ip_address, now)
  IN  /\ \/ family = "start_story"
         \/ family = "start_policy" /\ ip_address = PolicyAddress
      /\ ip_requests' = r.requests
      /\ Record("check_start_story_rate_limit", ip_address, "start_story",
                ip_requests[ip_address]["start_story"], r.result)
      /\ UNCHANGED <<engine_vars, now, session_requests, custom_input_requests, family, call, callers, log_vars>>

LimiterNext ==
  \/ Tick
  \/ \E s \in LimiterSessions : CheckSession(s)
  \/ \E s \in LimiterSessions : CheckCustomInput(s)
  \/ \E a \in LimiterAddresses, e \in Endpoints : CheckIp(a, e)
  \/ \E a \in LimiterAddresses : CheckStartStory(a)

LimiterSpec == LimiterSpecInit /\ [][LimiterNext]_vars

\* the policy a check method applies first
PolicyOf(method) ==
  IF method = "check_session_rate_limit" THEN limits.session_turns_per_hour
  ELSE IF method = "check_custom_input_rate_limit" THEN limits.custom_input_per_10min
  ELSE IF method = "check_ip_rate_limit" THEN limits.ip_per_hour
  ELSE limits.start_per_ip_per_hour
\* the entries of a list that lie in the window of window_seconds ending at t
InWindow(entries, window_seconds, t) ==
  {i \in 1..Len(entries) : entries[i] + window_seconds * TicksPerSecond > t}
\* check is a call of one of the methods whose list no other method uses
OwnListChecked ==
  check.method \in {"check_session_rate_limit", "check_custom_input_rate_limit"}
    \/ (check.method = "check_ip_rate_limit" /\ family = "ip")

\* C22: on a key under a policy (max_requests = N, window_seconds = W), a
\* check that finds fewer than N entries in the window is allowed and appends
\* one entry, so checks 1..N on a fresh key are allowed; a check that finds N
\* entries in the window is denied and appends nothing; and a check made once
\* the clock has reached oldest_timestamp + W is allowed again.
C22_WindowOfNThenDenied ==
  OwnListChecked
    => LET policy == PolicyOf(check.method)
           live == InWindow(check.entries, policy.window_seconds, check.t)
           after == Stored(ListOf(check))
       IN  /\ Cardinality(live) < policy.max_requests
                => /\ check.is_allowed
                   /\ Len(after) = Cardinality(live) + 1
                   /\ after[Len(after)] = check.t
           /\ Cardinality(live) >= policy.max_requests
                => (~check.is_allowed /\ after = check.entries)
           /\ Len(admitted[ListOf(check)]) < policy.max_requests => check.is_allowed
           /\ (check.entries # <<>>
               /\ check.t >= OldestTimestamp(check.entries)
                               + policy.window_seconds * TicksPerSecond)
                => check.is_allowed

\* a key that was full is allowed again once its oldest entry has left the window
C22_Witness ==
  /\ OwnListChecked
  /\ Len(check.entries) = PolicyOf(check.method).max_requests
  /\ check.t >= OldestTimestamp(check.entries)
                  + PolicyOf(check.method).window_seconds * TicksPerSecond
  /\ check.is_allowed
  /\ Len(admitted[ListOf(check)]) = PolicyOf(check.method).max_requests + 1

\* C23 as stated: every denial carries retry_after > 0, equal to
\* oldest_timestamp + window - now for the oldest entry in the window of the
\* policy that denied.
C23_RetryAfterPositive ==
  (check.method # "none" /\ ~check.is_allowed)
    => LET policy == PolicyOf(check.method)
           live == InWindow(check.entries, policy.window_seconds, check.t)
           oldest == CHOOSE ts \in {check.entries[i] : i \in live} :
                       \A i \in live : ts <= check.entries[i]
       IN  /\ check.retry_after > 0
           /\ check.retry_after * TicksPerSecond
                = oldest + policy.window_seconds * TicksPerSecond - check.t

\* C24 as stated: for a session key and for a client-address key, the requests
\* admitted within any one day never exceed the daily policy's max_requests.
C24_DailyCapEnforced ==
  /\ family = "session"
       => \A s \in LimiterSessions :
            Cardinality(InWindow(admitted[<<"session_requests", s, "continue">>],
                                 limits.session_turns_per_day.window_seconds, now))
              <= limits.session_turns_per_day.max_requests
  /\ family = "ip"
       => \A a \in LimiterAddresses :
            Cardinality(InWindow(admitted[<<"ip_requests", a, "continue">>],
                                 limits.ip_per_day.window_seconds, now))
              <= limits.ip_per_day.max_requests

\* C28: a check changes no list but the one of its own key, and it denies
\* only when the checks admitted on that very list within the policy's window
\* number at least max_requests: what was admitted for another session id or
\* client address never causes a denial.
C28_KeysIndependent ==
  [][(check' # check \/ session_requests' # session_requests
      \/ ip_requests' # ip_requests \/ custom_input_requests' # custom_input_requests)
       => LET own == ListOf(check')
              policy == PolicyOf(check'.method)
          IN  /\ \A l \in Lists \ {own} : Stored(l)' = Stored(l) /\ admitted'[l] = admitted[l]
              /\ ~check'.is_allowed
                   => Cardinality(InWindow(admitted[own], policy.window_seconds, now))
                        >= policy.max_requests]_vars

\* a check is allowed on one key while the list of another key of the same
\* dictionary is full
C28_Witness ==
  /\ check.method # "none"
  /\ check.is_allowed
  /\ check.t = now
  /\ \E l \in Lists \ {ListOf(check)} :
       /\ l[1] = ListOf(check)[1]
       /\ Cardinality(InWindow(Stored(l), PolicyOf(check.method).window_seconds, now))
            >= PolicyOf(check.method).max_requests

(***************************************************************************)
(* The start and continue endpoints with rate limiting enabled             *)
(* (config.safety.enable_rate_limiting, the default): the rate-limit block *)
(* of the handler, then the engine.  The block has no await, so it runs    *)
(* as one step; requests are handled one after another.                    *)
(***************************************************************************)
\* the requests of a run arrive within this many ticks
MaxEndpointClock == 1

\* the HTTP requests the endpoints receive; all resolve to one client address
EndpointHttpRequests ==
  {[forwarded_for |-> "10.0.0.1, 10.0.0.2", real_ip |-> None, client_host |-> "10.0.0.4"]}

\* the generation backend answers every call with a response that validates
EndpointOutcomes == {[kind |-> "response", response |-> GoodResponse]}

\* RateLimitExceeded with a Retry-After that ignores the check's value
RateLimitExceeded_FixedRetryAfter(retry_after) ==
  [status |-> "RateLimitExceeded", status_code |-> 429,
   headers |-> [Retry_After |-> "60"]]

\* RateLimitExceeded(retry_after): the 429 response and its Retry-After header
RateLimitExceeded(retry_after) ==
  [status |-> "RateLimitExceeded", status_code |-> 429,
   headers |-> [Retry_After |-> ToString(retry_after)]]

\* the check whose result the handler acted on last
HandlerCheck(method, key, result) ==
  [method |-> method, key |-> key, is_allowed |-> result.is_allowed,
   retry_after |-> result.retry_after]

\* the request bodies of a continue request: a choice, or free text
EndpointInputs ==
  {in \in ContinueInputs : in.choice_text = "go on"}

\* raise RateLimitExceeded(retry_after): the engine is not reached
Deny(c) ==
  /\ check' = c
  /\ response' = RateLimitExceeded(c.retry_after)
  /\ UNCHANGED <<sessions, story_turns, use_moderation_api, pc, req, attempt, llm_calls,
                 sleeps, last_attempt, llm_response>>

\* POST /story/start
StartStoryRequest(http, sid, player_theme, player_age) ==
  LET client_ip == GetClientIp(http)
      start_check == CheckStartStoryRateLimit(ip_requests, client_ip, now)
      ip_check == CheckIpRateLimit(start_check.requests, client_ip, "start_story", now)
  IN  /\ pc = "idle"
      /\ IF ~start_check.result.is_allowed
         THEN /\ Deny(HandlerCheck("check_start_story_rate_limit", client_ip, start_check.result))
              /\ ip_requests' = start_check.requests
         ELSE IF ~ip_check.result.is_allowed
         THEN /\ Deny(HandlerCheck("check_ip_rate_limit", client_ip, ip_check.result))
              /\ ip_requests' = ip_check.requests
         ELSE /\ check' = HandlerCheck("check_ip_rate_limit", client_ip, ip_check.result)
              /\ ip_requests' = ip_check.requests
              /\ StartStory(sid, player_theme, player_age)
      /\ admitted' = IF start_check.result.is_allowed /\ ip_check.result.is_allowed
                     THEN [admitted EXCEPT ![<<"start_story", client_ip>>] = Append(@, now)]
                     ELSE admitted
      /\ UNCHANGED <<now, session_requests, custom_input_requests, family, call, callers, log_vars>>

\* POST /story/continue
ContinueStoryRequest(http, sid, in, verdict) ==
  LET client_ip == GetClientIp(http)
      session_check == CheckSessionRateLimit(session_requests, sid, "continue", now)
      custom_check == CheckCustomInputRateLimit(custom_input_requests, sid, now)
      ip_check == CheckIpRateLimit(ip_requests, client_ip, "continue", now)
  IN  /\ pc = "idle"
      /\ IF ~session_check.result.is_allowed
         THEN /\ Deny(HandlerCheck("check_session_rate_limit", sid, session_check.result))
              /\ session_requests' = session_check.requests
              /\ UNCHANGED <<custom_input_requests, ip_requests>>
         ELSE IF Truthy(in.custom_input) /\ ~custom_check.result.is_allowed
         THEN /\ Deny(HandlerCheck("check_custom_input_rate_limit", sid, custom_check.result))
              /\ session_requests' = session_check.requests
              /\ custom_input_requests' = custom_check.requests
              /\ UNCHANGED ip_requests
         ELSE /\ session_requests' = session_check.requests
              /\ custom_input_requests' = IF Truthy(in.custom_input) THEN custom_check.requests
                                          ELSE custom_input_requests
              /\ ip_requests' = ip_check.requests
              /\ IF ~ip_check.result.is_allowed
                 THEN Deny(HandlerCheck("check_ip_rate_limit", client_ip, ip_check.result))
                 ELSE /\ check' = HandlerCheck("check_ip_rate_limit", client_ip, ip_check.result)
                      /\ ContinueStory(sid, in, verdict)
      /\ UNCHANGED <<now, admitted, family, call, callers, log_vars>>

EndpointNext ==
  \/ \E http \in EndpointHttpRequests, sid \in SessionIds, th \in Themes, age \in AgeRanges :
       StartStoryRequest(http, sid, th, age)
  \/ \E http \in EndpointHttpRequests, sid \in LimiterSessions, in \in EndpointInputs,
        v \in VerdictsFor(use_moderation_api) :
       ContinueStoryRequest(http, sid, in, v)
  \/ /\ \E o \in EndpointOutcomes : LLMAttempt(o, "clean")
     /\ UNCHANGED <<limiter_vars, call, callers, log_vars>>
  \/ /\ now < MaxEndpointClock
     /\ Tick

EndpointSpec == Init /\ [][EndpointNext]_vars

\* C27: when a rate-limit check denies a start or continue request, the
\* engine is not invoked: no session or turn is created or changed, no
\* generation call is made and no engine request begins; the caller receives
\* 429 with a Retry-After header equal to the retry_after of the denying check.
C27_DenialSkipsEngine ==
  [][(pc = "idle" /\ now' = now /\ check'.method # "none" /\ ~check'.is_allowed)
       => /\ UNCHANGED <<sessions, story_turns, pc, req, attempt, llm_calls, sleeps,
                         last_attempt, llm_response>>
          /\ response'.status_code = 429
          /\ response'.headers.Retry_After = ToString(check'.retry_after)]_vars

\* a continue request on an existing session was denied by the free-text check
C27_Witness ==
  /\ response.status = "RateLimitExceeded"
  /\ check.method = "check_custom_input_rate_limit"
  /\ ~check.is_allowed
  /\ sessions["s1"].exists
  /\ pc = "idle"

(***************************************************************************)
(* Two continue requests for one session in flight at once.  The handler   *)
(* and the engine are coroutines on one event loop: a request runs without *)
(* interruption from its rate-limit block to the await of the generation   *)
(* backend, and again from the backend's return to the commit.  Each       *)
(* request has its own database session, so the Session row it loaded      *)
(* before the await is the one it reads after it.                          *)
(***************************************************************************)
Callers == {"c1", "c2"}
\* each caller makes at most this many requests
MaxCalls == 2
RaceSession == "s1"
RaceClientIp == "10.0.0.1"

\* new_turn_number = db_session_model.turns + 1, with the turns a caller loaded
NewTurnNumber_Same(turns) == turns
NewTurnNumber(turns) == turns + 1

IdleCaller ==
  [pc |-> "idle", turns |-> 0, calls |-> 0, overlapped |-> FALSE,
   checked_at |-> -1, observed |-> 0, is_allowed |-> FALSE]

\* a story was started and stands at turn 0
RaceInit ==
  /\ sessions = [s \in SessionIds |->
                   [exists |-> TRUE, turns |-> 0, is_active |-> TRUE,
                    theme |-> "space_adventure", age_range |-> "6-8"]]
  /\ story_turns = [s \in SessionIds |->
                      <<[turn_number |-> 0, scene_text |-> GoodResponse.scene_text,
                         player_choice |-> None, custom_input |-> None]>>]
  /\ use_moderation_api = FALSE
  /\ pc = "idle"
  /\ req = NoRequest
  /\ attempt = 0
  /\ llm_calls = 0
  /\ sleeps = <<>>
  /\ last_attempt = NoAttempt
  /\ llm_response = NoLLMResponse
  /\ response = NoResponse
  /\ now = 0
  /\ session_requests = [s \in LimiterSessions |-> [e \in Endpoints |-> <<>>]]
  /\ ip_requests = [a \in ClientAddresses |-> [e \in Endpoints |-> <<>>]]
  /\ custom_input_requests = [s \in LimiterSessions |-> <<>>]
  /\ admitted = [l \in Lists \cup MethodLogs |-> <<>>]
  /\ check = NoCheck
  /\ family = "none"
  /\ call = NoCall
  /\ callers = [c \in Callers |-> IdleCaller]
  /\ NoFilter

\* POST /story/continue with a choice, up to the await of _call_llm_with_retry:
\* the rate-limit block, then continue_story's load of the session and its checks
RaceContinueBegin(c) ==
  LET session_check == CheckSessionRateLimit(session_requests, RaceSession, "continue", now)
      ip_check == CheckIpRateLimit(ip_requests, RaceClientIp, "continue", now)
      observed == Len(CleanupOldEntries(session_requests[RaceSession]["continue"],
                                        limits.session_turns_per_hour.window_seconds, now))
      checked == [callers[c] EXCEPT !.calls = @ + 1, !.checked_at = now,
                                    !.observed = observed,
                                    !.is_allowed = session_check.result.is_allowed]
      s == sessions[RaceSession]
      in_flight == {o \in Callers \ {c} : callers[o].pc = "llm"}
  IN  /\ callers[c].pc = "idle"
      /\ callers[c].calls < MaxCalls
      /\ session_requests' = session_check.requests
      /\ IF ~session_check.result.is_allowed
         THEN /\ check' = HandlerCheck("check_session_rate_limit", RaceSession,
                                       session_check.result)
              /\ callers' = [callers EXCEPT ![c] = checked]
              /\ UNCHANGED <<ip_requests, admitted>>
         ELSE /\ check' = HandlerCheck("check_ip_rate_limit", RaceClientIp, ip_check.result)
              /\ ip_requests' = ip_check.requests
              /\ admitted' = [admitted EXCEPT
                                ![<<"session_requests", RaceSession, "continue">>] =
                                  Append(@, now)]
              /\ IF ~ip_check.result.is_allowed \/ ContinueRefused(s)
                 THEN callers' = [callers EXCEPT ![c] = checked]
                 ELSE callers' =
                        [o \in Callers |->
                           IF o = c
                             THEN [checked EXCEPT !.pc = "llm", !.turns = s.turns,
                                                  !.overlapped = @ \/ in_flight # {}]
                           ELSE IF o \in in_flight
                             THEN [callers[o] EXCEPT !.overlapped = TRUE]
                           ELSE callers[o]]
      /\ UNCHANGED <<engine_vars, now, custom_input_requests, family, call, log_vars>>

\* continue_story from the return of _call_llm_with_retry to db_session.commit()
RaceContinueFinish(c) ==
  LET new_turn_number == NewTurnNumber(callers[c].turns)
  IN  /\ callers[c].pc = "llm"
      /\ sessions' = [sessions EXCEPT ![RaceSession].turns = new_turn_number]
      /\ story_turns' = [story_turns EXCEPT ![RaceSession] =
                           Append(@, [turn_number |-> new_turn_number,
                                      scene_text |-> GoodResponse.scene_text,
                                      player_choice |-> "c1", custom_input |-> None])]
      /\ callers' = [callers EXCEPT ![c].pc = "idle"]
      /\ UNCHANGED <<use_moderation_api, pc, req, attempt, llm_calls, sleeps, last_attempt,
                     llm_response, response, limiter_vars, call, log_vars>>

RaceNext ==
  \/ \E c \in Callers : RaceContinueBegin(c)
  \/ \E c \in Callers : RaceContinueFinish(c)
  \/ /\ now < MaxEndpointClock
     /\ Tick

RaceSpec == RaceInit /\ [][RaceNext]_vars

\* the turn numbers persisted for the session are pairwise different
TurnNumbersUnique ==
  \A i, j \in 1..Len(story_turns[RaceSession]) :
    story_turns[RaceSession][i].turn_number = story_turns[RaceSession][j].turn_number => i = j

\* the first of the two callers' latest checks found the session's window one
\* below the hourly limit
FoundOneBelowLimit ==
  /\ \A c \in Callers : callers[c].observed >= limits.session_turns_per_hour.max_requests - 1
  /\ \E c \in Callers : callers[c].observed = limits.session_turns_per_hour.max_requests - 1

C26_UniqueUnderSingleWriter ==
  /\ (\A c \in Callers : ~callers[c].overlapped)
       => /\ TurnNumbersUnique
          /\ {story_turns[RaceSession][i].turn_number : i \in 1..Len(story_turns[RaceSession])}
               = 0..sessions[RaceSession].turns
  /\ (/\ callers["c1"].pc = "idle" /\ callers["c2"].pc = "idle"
      /\ callers["c1"].overlapped /\ callers["c2"].overlapped
      /\ callers["c1"].calls = 1 /\ callers["c2"].calls = 1)
       => /\ ~TurnNumbersUnique
          /\ Len(story_turns[RaceSession]) = 3
          /\ story_turns[RaceSession][2].turn_number = 1
          /\ story_turns[RaceSession][3].turn_number = 1
          /\ sessions[RaceSession].turns = 1

\* two interleaved calls both read turn 0 and both persisted turn 1
C26_Witness ==
  /\ callers["c1"].overlapped /\ callers["c2"].overlapped
  /\ callers["c1"].turns = 0 /\ callers["c2"].turns = 0
  /\ callers["c1"].pc = "idle" /\ callers["c2"].pc = "idle"
  /\ Len(story_turns[RaceSession]) = 3
  /\ story_turns[RaceSession][2].turn_number = 1
  /\ story_turns[RaceSession][3].turn_number = 1
  /\ sessions[RaceSession].is_active

\* C31: with the moderation endpoint enabled, a call of it that fails never
\* causes a rejection: filter_user_input and validate_llm_output return what
\* they return with the endpoint disabled, and never a moderation violation;
\* a call that succeeds with the verdict flagged always ends in a rejection.
C31_ModerationFailsOpen ==
  /\ (call.fn = "filter_user_input" /\ call.returned /\ use_moderation_api)
       => /\ call.verdict = "error"
               => /\ call.result.violation # "moderation_api"
                  /\ call.result.is_safe = (FirstFailedCheck(call.text, call.age_range) = 6)
                  /\ call.result.is_safe
                       = FilterUserInput(call.text, call.age_range, FALSE, "clean").is_safe
          /\ call.verdict = "flagged" => ~call.result.is_safe
          /\ (call.verdict = "flagged" /\ FirstFailedCheck(call.text, call.age_range) = 6)
               => call.result.violation = "moderation_api"
  /\ (call.fn = "validate_llm_output" /\ call.returned /\ use_moderation_api)
       => LET disabled == ValidateLLMOutput(call.llm_response.scene_text,
                                            call.llm_response.choices,
                                            call.age_range, FALSE, "clean")
          IN  /\ call.verdict = "error" => call.result = disabled
              /\ call.verdict = "flagged" => ~call.result.is_valid
              /\ (call.verdict = "flagged" /\ disabled.is_valid)
                   => call.result.violation = "moderation_api"

\* the endpoint was called for a harmless text, its call failed, and the text passed
C31_Witness ==
  /\ call.fn = "filter_user_input" /\ call.returned
  /\ use_moderation_api /\ call.verdict = "error"
  /\ call.result.moderation_called
  /\ call.result.is_safe
  /\ call.result.result = "go on"


(***************************************************************************)
(* The violation log.  get_story_engine builds an EnhancedSafetyFilter,    *)
(* with an empty violations_log, for the request that depends on it;       *)
(* filter_user_input and validate_llm_output append to the log of the      *)
(* filter they are called on; GET /api/v1/admin/safety/violations returns  *)
(* get_violation_summary() of the filter of its own engine.                *)
(***************************************************************************)
\* filter objects built in one run
MaxFilters == 2
\* rejections logged by one filter
MaxViolations == 2
\* self.violations_log[-10:]
RecentCount == 10

LogTexts ==
  {"", "go on", "kill it", "a complex door", "visit http://x.com"}
    \cup {p[1] : p \in {q \in TextTable : Len(q[2]) = max_input_length + 1}}
LogAgeRanges == {None, "6-8"}
LogResponses ==
  {GoodResponse, BannedSceneResponse, NegativeResponse, BannedChoiceResponse, AgeWordResponse}

\* SafetyViolation(violation_type, severity, reason, details)
SafetyViolation(violation_type, severity) ==
  [type |-> violation_type, severity |-> severity]

\* the severity each rejecting branch gives its SafetyViolation
SeverityOf(violation_type) ==
  IF violation_type \in {"age_inappropriate", "negative_sentiment"} THEN "medium" ELSE "high"

\* filter_user_input and validate_llm_output, tabulated for the calls of LogSpec
FilterResults ==
  [t \in LogTexts, a \in LogAgeRanges, use \in BOOLEAN, verdict \in ModerationVerdicts |->
     FilterUserInput(t, a, use, verdict)]
ValidateResults ==
  [r \in LogResponses, a \in LogAgeRanges, use \in BOOLEAN, verdict \in ModerationVerdicts |->
     ValidateLLMOutput(r.scene_text, r.choices, a, use, verdict)]

\* violations_log after filter_user_input that appends whatever the flag says
FilterUserInputLog_IgnoresFlag(r, logging, log) ==
  IF r.is_safe THEN log
  ELSE IF r.result \in {"Input cannot be empty", "Input too long"} THEN log
  ELSE Append(log, SafetyViolation(r.violation, SeverityOf(r.violation)))

\* violations_log after filter_user_input returned r: the branches for an empty
\* and for a too long input return their violation without appending it; the
\* other rejecting branches append if self.log_violations
FilterUserInputLog(r, logging, log) ==
  IF r.is_safe THEN log
  ELSE IF r.result \in {"Input cannot be empty", "Input too long"} THEN log
  ELSE IF logging THEN Append(log, SafetyViolation(r.violation, SeverityOf(r.violation)))
  ELSE log

\* violations_log after validate_llm_output returned r: every rejecting branch
\* appends if self.log_violations
ValidateLLMOutputLog(r, logging, log) ==
  IF r.is_valid THEN log
  ELSE IF logging THEN Append(log, SafetyViolation(r.violation, SeverityOf(r.violation)))
  ELSE log

\* how many records of the log have value v in field f
CountBy(log, f, v) == Cardinality({i \in 1..Len(log) : log[i][f] = v})

\* get_violation_summary
GetViolationSummary(log) ==
  IF log = <<>>
    THEN [total |-> 0, by_type |-> <<>>, by_severity |-> <<>>, recent |-> <<>>]
  ELSE [total |-> Len(log),
        by_type |-> [t \in {log[i].type : i \in 1..Len(log)} |-> CountBy(log, "type", t)],
        by_severity |-> [s \in {log[i].severity : i \in 1..Len(log)} |->
                           CountBy(log, "severity", s)],
        recent |-> IF Len(log) <= RecentCount THEN log
                   ELSE SubSeq(log, Len(log) - RecentCount + 1, Len(log))]

LogSpecInit ==
  /\ EngineInit
  /\ LimiterInit
  /\ family = "none"
  /\ call = NoCall
  /\ callers = NoCallers
  /\ safety_filter = 0
  /\ log_violations \in BOOLEAN
  /\ violations_log = <<>>
  /\ summary = NoSummary
  /\ recorded = 0

\* the filter at hand was built for a story request, not for the admin request
\* that has been answered
HeldByStoryRequest == safety_filter > 0 /\ summary.filter # safety_filter

\* get_story_engine, as the dependency of a story request: a new filter
GetStoryEngine ==
  /\ safety_filter < MaxFilters
  /\ safety_filter' = safety_filter + 1
  /\ violations_log' = <<>>
  /\ call' = NoCall
  /\ UNCHANGED <<engine_vars, limiter_vars, callers, log_violations, summary, recorded>>

\* await engine.safety.filter_user_input(text, age_range) in that request
LoggedFilterUserInput(text, age_range, verdict) ==
  LET r == FilterResults[text, age_range, use_moderation_api, verdict]
  IN  /\ HeldByStoryRequest
      /\ violations_log' = FilterUserInputLog(r, log_violations, violations_log)
      /\ Len(violations_log') <= MaxViolations
      /\ recorded' = recorded + (Len(violations_log') - Len(violations_log))
      /\ call' = [fn |-> "filter_user_input", text |-> text, age_range |-> age_range,
                  verdict |-> verdict, returned |-> TRUE, result |-> r]
      /\ UNCHANGED <<engine_vars, limiter_vars, callers, safety_filter, log_violations, summary>>

\* await engine.safety.validate_llm_output(scene_text, choices, age_range) in that request
LoggedValidateLLMOutput(llm, age_range, verdict) ==
  LET r == ValidateResults[llm, age_range, use_moderation_api, verdict]
  IN  /\ HeldByStoryRequest
      /\ violations_log' = ValidateLLMOutputLog(r, log_violations, violations_log)
      /\ Len(violations_log') <= MaxViolations
      /\ recorded' = recorded + (Len(violations_log') - Len(violations_log))
      /\ call' = [fn |-> "validate_llm_output", llm_response |-> llm,
                  age_range |-> age_range, verdict |-> verdict, returned |-> TRUE,
                  result |-> r]
      /\ UNCHANGED <<engine_vars, limiter_vars, callers, safety_filter, log_violations, summary>>

\* GET /api/v1/admin/safety/violations: Depends(get_story_engine) builds the
\* engine of this request, and the handler returns the summary of its filter
GetSafetyViolations ==
  /\ safety_filter < MaxFilters
  /\ safety_filter' = safety_filter + 1
  /\ violations_log' = <<>>
  /\ summary' = [request |-> "get_safety_violations", filter |-> safety_filter',
                 body |-> GetViolationSummary(violations_log')]
  /\ call' = NoCall
  /\ UNCHANGED <<engine_vars, limiter_vars, callers, log_violations, recorded>>

LogNext ==
  \/ GetStoryEngine
  \/ \E text \in LogTexts, age_range \in LogAgeRanges, verdict \in VerdictsFor(use_moderation_api) :
       LoggedFilterUserInput(text, age_range, verdict)
  \/ \E llm \in LogResponses, age_range \in LogAgeRanges, verdict \in VerdictsFor(use_moderation_api) :
       LoggedValidateLLMOutput(llm, age_range, verdict)
  \/ GetSafetyViolations

LogSpec == LogSpecInit /\ [][LogNext]_vars

\* a step of LogSpec in which a filter method was called on the filter at hand
FilterMethodStep ==
  /\ safety_filter' = safety_filter
  /\ summary' = summary
  /\ (call' # call \/ violations_log' # violations_log)
\* the call of that step ended in a rejection
Rejected(c) ==
  IF c.fn = "filter_user_input" THEN ~c.result.is_safe ELSE ~c.result.is_valid
\* the rejection came from the emptiness check or the length cap
EmptyOrTooLong(c) ==
  c.fn = "filter_user_input" /\ c.result.result \in {"Input cannot be empty", "Input too long"}
\* s is t or t with one record more
IsPrefix(s, t) == Len(s) <= Len(t) /\ SubSeq(t, 1, Len(s)) = s

\* C32 as stated: the log of a filter only grows at its end; with logging
\* enabled every rejection, from filter_user_input or validate_llm_output,
\* appends exactly one record; with logging disabled nothing is appended.
C32_EveryRejectionLogged ==
  [][/\ safety_filter' = safety_filter => IsPrefix(violations_log, violations_log')
     /\ FilterMethodStep =>
          /\ (log_violations /\ Rejected(call'))
               => violations_log' = Append(violations_log,
                                           SafetyViolation(call'.result.violation,
                                                           SeverityOf(call'.result.violation)))
          /\ ~log_violations => violations_log' = violations_log]_vars

\* C32, amended: the log of a filter only grows at its end; with logging
\* enabled every rejection other than that of an empty or too long input
\* appends exactly one record, of the kind of the rejection, and every other
\* call appends nothing; with logging disabled nothing is appended.
C32_RejectionsLoggedButEmptyAndTooLong ==
  [][/\ safety_filter' = safety_filter => IsPrefix(violations_log, violations_log')
     /\ FilterMethodStep =>
          /\ (log_violations /\ Rejected(call') /\ ~EmptyOrTooLong(call'))
               => /\ Len(violations_log') = Len(violations_log) + 1
                  /\ violations_log'[Len(violations_log')].type = call'.result.violation
                  /\ SubSeq(violations_log', 1, Len(violations_log)) = violations_log
          /\ (~log_violations \/ ~Rejected(call') \/ EmptyOrTooLong(call'))
               => violations_log' = violations_log]_vars

\* a filter with logging enabled has logged a rejection of each direction and
\* has then rejected an empty input without logging it
C32_Witness ==
  /\ log_violations
  /\ Len(violations_log) = 2
  /\ violations_log[1].type = "inappropriate_pattern"
  /\ violations_log[2].type = "negative_sentiment"
  /\ call.fn = "filter_user_input"
  /\ call.text = ""
  /\ ~call.result.is_safe


\* C33: a violation recorded while handling one request is still in the log
\* and is counted in the summary returned to a later request: the summary
\* that GET /api/v1/admin/safety/violations returns counts every violation
\* the process has recorded so far.
C33_LaterSummaryCountsEarlierViolations ==
  (summary.request = "get_safety_violations" /\ summary.filter = safety_filter)
    => summary.body.total = recorded


\* the score as arithmetic on the tenths themselves gives it:
\* <<sum of the lexicon weights in tenths, number of lexicon words>>
RECURSIVE LexiconSum(_)
LexiconSum(words) ==
  IF words = <<>> THEN <<0, 0>>
  ELSE LET w == CleanWord(Head(words))
           rest == LexiconSum(Tail(words))
       IN  IF InLexicon(negative_indicators, w)
             THEN <<rest[1] + Weight(negative_indicators, w), rest[2] + 1>>
           ELSE IF InLexicon(positive_indicators, w)
             THEN <<rest[1] + Weight(positive_indicators, w), rest[2] + 1>>
           ELSE rest
\* sum / count is strictly below -0.3
ScoreBelowThreshold(text) ==
  LET sc == LexiconSum(Split(Lower(Chars(text))))
  IN  sc[2] > 0 /\ sc[1] < SentimentThreshold * sc[2]
\* sum / count is exactly -0.3
ScoreAtThreshold(text) ==
  LET sc == LexiconSum(Split(Lower(Chars(text))))
  IN  sc[2] > 0 /\ sc[1] = SentimentThreshold * sc[2]
\* the banned-word checks of validate_llm_output let the response through
NoBannedWord(r) ==
  /\ ~HasBannedWord(Chars(r.scene_text))
  /\ ~(TruthyList(r.choices) /\ \E i \in 1..Len(r.choices) : HasBannedWord(Chars(r.choices[i])))

\* C34: validate_llm_output rejects a scene as too negative exactly when the
\* sum of the lexicon weights of its words divided by their count is strictly
\* below -0.3: a scene without lexicon words passes the check, a scene whose
\* score is exactly -0.3 passes it, and a scene of negative words averaging
\* below -0.3 is rejected.
C34_TooNegativeExactlyBelowThreshold ==
  (call.fn = "validate_llm_output" /\ call.returned /\ NoBannedWord(call.llm_response))
    => ((call.result.violation = "negative_sentiment")
          <=> ScoreBelowThreshold(call.llm_response.scene_text))


\* the checks a method allowed for a key, and the policy it applies first
PolicyLogs ==
  {[log |-> <<"session_requests", s, "continue">>, policy |-> limits.session_turns_per_hour] :
     s \in LimiterSessions}
    \cup {[log |-> <<"custom_input_requests", s>>, policy |-> limits.custom_input_per_10min] :
            s \in LimiterSessions}
    \cup {[log |-> <<"ip_requests", a, "continue">>, policy |-> limits.ip_per_hour] :
            a \in ClientAddresses}
    \cup {[log |-> <<"check_ip_rate_limit", a, "start_story">>, policy |-> limits.ip_per_hour] :
            a \in ClientAddresses}
    \cup {[log |-> <<"check_start_story_rate_limit", a, "start_story">>,
           policy |-> limits.start_per_ip_per_hour] : a \in ClientAddresses}

\* C35: with the checks made one at a time, after any sequence of checks and
\* clock advances the requests a policy admitted for a key with timestamps
\* within the last window_seconds never number more than max_requests, for
\* the hourly session policy, the hourly client policy, the free-text policy
\* and the start policy.
C35_AdmittedInWindowAtMostMax ==
  \A p \in PolicyLogs :
    Cardinality(InWindow(admitted[p.log], p.policy.window_seconds, now))
      <= p.policy.max_requests

\* the start policy has admitted its maximum for a client within the window,
\* has admitted again after the window moved on, and then denied a start
C35_Witness ==
  /\ family = "start_policy"
  /\ check.method = "check_start_story_rate_limit"
  /\ ~check.is_allowed
  /\ LET log == admitted[<<"check_start_story_rate_limit", check.key, "start_story">>]
         policy == limits.start_per_ip_per_hour
     IN  /\ Len(log) > policy.max_requests
         /\ Cardinality(InWindow(log, policy.window_seconds, now)) = policy.max_requests


\* the start requests of a client that the handler let through within the
\* window of the start policy
StartsInWindow(client_ip) ==
  Cardinality(InWindow(admitted[<<"start_story", client_ip>>],
                       limits.start_per_ip_per_hour.window_seconds, now))

\* C36: a client can start max_requests sessions within the window of the
\* start policy: a start request is denied by check_start_story_rate_limit
\* only when max_requests start requests of that client were let through
\* within the window, so that starts 1..N of a fresh client are admitted and
\* start N+1 is the first the start policy denies.
C36_StartsUpToMaxAdmitted ==
  [][(pc = "idle" /\ now' = now /\ check'.method = "check_start_story_rate_limit"
        /\ ~check'.is_allowed)
       => StartsInWindow(check'.key) >= limits.start_per_ip_per_hour.max_requests]_vars


\* a step in which a handler raised RateLimitExceeded
DeniedRequestStep ==
  pc = "idle" /\ now' = now /\ check'.method # "none" /\ ~check'.is_allowed
\* an allowed check under a policy of window_seconds turned list before into after
Consumed(before, after, window_seconds) ==
  after = Append(CleanupOldEntries(before, window_seconds, now), now)
\* the session check of a continue request for session_id was allowed
SessionConsumed(session_id) ==
  /\ Consumed(session_requests[session_id]["continue"],
              session_requests'[session_id]["continue"],
              limits.session_turns_per_hour.window_seconds)
  /\ session_requests' =
       [session_requests EXCEPT ![session_id]["continue"] =
                                  session_requests'[session_id]["continue"]]
\* the free-text check of a continue request for session_id was allowed
CustomInputConsumed(session_id) ==
  /\ Consumed(custom_input_requests[session_id], custom_input_requests'[session_id],
              limits.custom_input_per_10min.window_seconds)
  /\ custom_input_requests' =
       [custom_input_requests EXCEPT ![session_id] = custom_input_requests'[session_id]]

\* C37: a start or continue request that one of its rate-limit checks denies
\* leaves every list of the limiter, in the session, free-text and client
\* namespaces, exactly as it was before the request.
C37_DeniedRequestConsumesNothing ==
  [][DeniedRequestStep
       => UNCHANGED <<session_requests, custom_input_requests, ip_requests>>]_vars

\* what a denied request does leave behind: the check that denies records
\* nothing, and a request denied by the first of its checks changes no list; a
\* continue request denied by the free-text check keeps the entry its session
\* check appended, and one denied by the client check keeps that entry and,
\* when it carries free text, the entry of its free-text check
DenyingCheckRecordsNothing ==
  [][DeniedRequestStep
       => /\ check'.method \in {"check_session_rate_limit", "check_start_story_rate_limit"}
               => UNCHANGED <<session_requests, custom_input_requests, ip_requests>>
          /\ check'.method = "check_custom_input_rate_limit"
               => /\ UNCHANGED <<custom_input_requests, ip_requests>>
                  /\ SessionConsumed(check'.key)
          /\ check'.method = "check_ip_rate_limit"
               => /\ UNCHANGED ip_requests
                  /\ \E s \in LimiterSessions :
                       /\ SessionConsumed(s)
                       /\ \/ UNCHANGED custom_input_requests
                          \/ CustomInputConsumed(s)]_vars


(***************************************************************************)
(* The turn engine on its own: start_story and continue_story with every   *)
(* shape of player action, and a backend that raises, answers well, or     *)
(* answers with a scene holding a word of age_inappropriate_words["6-8"].  *)
(***************************************************************************)
TurnOutcomes ==
  {[kind |-> "raise", response |-> NoLLMResponse],
   [kind |-> "response", response |-> GoodResponse],
   [kind |-> "response", response |-> AgeWordResponse]}

TurnNext ==
  \/ /\ \E sid \in SessionIds, th \in Themes, age \in AgeRanges : StartStory(sid, th, age)
     /\ UNCHANGED <<limiter_vars, call, callers, log_vars>>
  \/ /\ \E sid \in SessionIds, in \in TurnInputs, v \in VerdictsFor(use_moderation_api) :
          ContinueStory(sid, in, v)
     /\ UNCHANGED <<limiter_vars, call, callers, log_vars>>
  \/ /\ \E o \in TurnOutcomes, v \in VerdictsFor(use_moderation_api) : LLMAttempt(o, v)
     /\ UNCHANGED <<limiter_vars, call, callers, log_vars>>

TurnSpec == Init /\ [][TurnNext]_vars

\* the age check of validate_llm_output and filter_user_input, asked of a text
\* with the age bracket of the session
AgeInappropriate(text, age_range) ==
  /\ age_range \in AgeRangesWithList
  /\ HasListedWord(Chars(text), age_inappropriate_words(age_range))

\* C38: no persisted turn of a session holds a scene, or a free-text action,
\* with a word listed as inappropriate for the session's age bracket.
C38_NoAgeInappropriateTurn ==
  \A sid \in SessionIds :
    \A i \in 1..Len(story_turns[sid]) :
      LET t == story_turns[sid][i]
          age == sessions[sid].age_range
      IN  /\ ~AgeInappropriate(t.scene_text, age)
          /\ Truthy(t.custom_input) => ~AgeInappropriate(t.custom_input, age)


\* continue_story got past the checks of the session and resolved the action
ActionResolved ==
  /\ req.op = "continue"
  /\ response.status \notin {"InvalidState", "ValidationError"}

\* the free text as filter_user_input returns it: stripped of outer blanks
FilteredText(text) == Str(Strip(Chars(text)))

\* the action is the free text whenever one is given, else the choice's text,
\* else the placeholder of the choice's id; a request with neither fails
ActionByPriority ==
  (req.op = "continue" /\ response.status # "InvalidState") =>
    IF Truthy(req.custom_input)
    THEN \/ /\ ActionResolved
            /\ req.player_action = FilteredText(req.custom_input)
         \/ /\ response.status = "ValidationError"
            /\ pc = "idle" /\ llm_calls = 0
    ELSE IF Truthy(req.choice_id)
    THEN /\ ActionResolved
         /\ req.player_action = IF Truthy(req.choice_text) THEN req.choice_text
                                ELSE "Choice " \o req.choice_id
    ELSE /\ response.status = "ValidationError"
         /\ pc = "idle" /\ llm_calls = 0

\* a continue request without free text and without choice id
NoActionStep ==
  /\ pc = "idle"
  /\ req'.op = "continue"
  /\ ~Truthy(req'.custom_input)
  /\ ~Truthy(req'.choice_id)

\* C40: continue_story takes the player's action from the free text when one is
\* given (as the filter returns it), even beside a choice; else from the
\* choice's text; else from the placeholder "Choice <id>"; a request with
\* neither fails before any backend call and leaves sessions and turns as they were.
C40_ActionByPriority ==
  /\ []ActionByPriority
  /\ [][NoActionStep =>
          /\ pc' = "idle"
          /\ llm_calls' = 0
          /\ response'.status \in {"InvalidState", "ValidationError"}
          /\ UNCHANGED <<sessions, story_turns>>]_vars

\* a turn is persisted whose action was the free text although a choice came with it
C40_Witness ==
  /\ req.op = "continue"
  /\ response.status = "ok"
  /\ Truthy(req.choice_id) /\ Truthy(req.choice_text)
  /\ Truthy(req.custom_input)
  /\ req.player_action = req.custom_input
  /\ llm_calls > 0


\* the texts validate_llm_output scans: the scene, then each choice
ScannedTexts(r) ==
  {r.scene_text} \cup (IF TruthyList(r.choices) THEN {r.choices[i] : i \in 1..Len(r.choices)}
                       ELSE {})
\* some word of the text, taken apart at blanks and freed of punctuation, is banned
HasWholeBannedWord(text) == HasListedWord(Chars(text), banned_words)

\* C39: validate_llm_output's banned-word scan is a whole-word scan of the
\* scene and of each choice: a response is rejected for a banned word exactly
\* when one of these texts holds a banned word as a word of its own, wherever
\* it stands and with or without punctuation attached; a banned word that is
\* only part of a longer word does not count.
C39_BannedScanIsWholeWord ==
  (call.fn = "validate_llm_output" /\ call.returned)
    => ((call.result.violation = "banned_word")
          <=> \E t \in ScannedTexts(call.llm_response) : HasWholeBannedWord(t))

====
